---- MODULE Spec2Model ----
(***************************************************************************)
(* Resumable chunked bulk transfer of orchid-db (src/etl/gbif.py,          *)
(* FlexibleDataProcessor; src/etl/wfo.py has the same engine).             *)
(*                                                                         *)
(* The staging table holds TotalCount rows; parallel_transfer cuts them    *)
(* into windows of ChunkSize rows, groups the remaining windows in batches *)
(* of BatchSize, and a pool of MaxWorkers threads runs process_chunk_batch *)
(* on each batch.  The sink and the progress file survive a kill of the    *)
(* process; everything else is the memory of one process.                  *)
(***************************************************************************)
EXTENDS Integers, Sequences, FiniteSets, TLC

\* ---- bounds of the model --------------------------------------------
TotalCount == 5       \* rows in the staging table
FilteredCount == 3    \* rows of the staging table that satisfy the filter
ChunkSize == 2        \* config.chunk_size
MaxBatchSize == 2     \* largest config.batch_size
MaxWorkers == 3       \* config.max_workers
MaxRuns == 2          \* invocations of the pipeline in one behaviour
MaxFaults == 2        \* failures injected in one behaviour (kills excluded)
SplitChunkSize == 2   \* config.split_chunk_size of the transfer runs
MaxRows == 5          \* most data rows of a source given to the splitter
MaxSplitSize == 3     \* largest config.split_chunk_size given to the splitter
MaxPlanRows == 10     \* most staged rows given to the batch planner
MaxPlanSize == 3      \* largest chunk_size and batch_size given to the planner
MaxIndex == 11        \* largest chunk index given to the ledger file
MaxLines == 3         \* most lines of a progress file found on disk
MaxStreamChunks == 3  \* most chunks insert_large_file_streaming cuts a file into
MaxChunkRows == 2     \* most data rows of one streamed chunk
MaxColumns == 2       \* most columns of a table given to create_smart_filter
MaxFileRows == 2      \* most data rows of a file given to the staging loader
MaxPoolBatches == 2   \* most batches submitted to the worker pool
MaxStageFiles == 3    \* most chunk files given to process_all_chunks

VARIABLES
    \* durable state
    sink_table,         \* the sink table exists
    sink,               \* chunk index -> committed copies of its rows
    sink_header,        \* header lines committed to the sink as data rows
    progress_file,      \* [exists, lines]: the progress file
    split_dir,          \* the chunk files of config.split_dir, in name order
    duckdb_file,        \* "absent", "empty" (no table) or "loaded"
    \* configuration
    filter_condition,   \* config.filter_condition is set
    batch_size,         \* config.batch_size
    progress_configured, \* config.progress_file is set
    csv_file,           \* the lines of config.csv_file (0 is the header)
    split_chunk_size,   \* config.split_chunk_size
    total_count,        \* rows of the staging table given to the planner
    chunk_size,         \* config.chunk_size given to the planner
    \* memory of the running process
    pc,                 \* "idle", "transfer", "done"
    completed_chunks,   \* self.completed_chunks
    records_found,      \* self.records_found
    progress_lock,      \* self.progress_lock is locked
    table_exists,       \* flag returned by setup_database
    chunk_batches,      \* the batches of this run
    workers,            \* one record per batch: the state of its worker
    verified,           \* verify_transfer was called in this run
    chunk_files,        \* what split_large_csv returned to this run
    \* history
    run,                \* number of the current invocation
    ledger_at_start,    \* the set load_progress returned to this run
    table_at_start,     \* the sink table existed when this run started
    exported,           \* chunks exported from staging during this run
    copied,             \* chunks copied to the sink during this run
    connected,          \* a sink connection was opened during this run
    kills,              \* kills of the process so far
    faults,             \* failures injected so far (kills excluded)
    \* the other entry points, each idle while the pipeline above runs
    stream,             \* sources.py: insert_large_file_streaming
    smart_filter,       \* sources.py: a call of create_smart_filter
    loader,             \* sources.py: load_small_csv_to_duckdb
    pool,               \* gbif.py: the executor of parallel_transfer
    stager              \* wfo.py: process_all_chunks

vars == <<sink_table, sink, sink_header, progress_file, split_dir,
          duckdb_file, filter_condition, batch_size, progress_configured,
          csv_file, split_chunk_size, total_count, chunk_size, pc,
          completed_chunks, records_found, progress_lock, table_exists,
          chunk_batches, workers, verified, chunk_files, run, ledger_at_start,
          table_at_start, exported, copied, connected, kills, faults,
          stream, smart_filter, loader, pool, stager>>

engines == <<stream, smart_filter, loader, pool, stager>>
the_sink == <<sink_table, sink, sink_header>>
staging == <<split_dir, duckdb_file>>
durable == <<the_sink, progress_file, staging>>
config == <<filter_condition, batch_size, progress_configured, csv_file,
            split_chunk_size, total_count, chunk_size>>
this_run == <<ledger_at_start, table_at_start, exported, copied, connected>>
history == <<this_run, kills, faults>>

\* ---- pure functions -------------------------------------------------
Min(a, b) == IF a < b THEN a ELSE b
Max(a, b) == IF a > b THEN a ELSE b

\* gbif.py:714  max_chunks = (total_count + chunk_size - 1) // chunk_size
MaxChunks(count, size) == (count + size - 1) \div size

max_chunks == MaxChunks(TotalCount, ChunkSize)

Chunks == 0 .. (max_chunks - 1)

\* rows selected by the export query (gbif.py:450-464)
TransferCount(f) == IF f THEN FilteredCount ELSE TotalCount

\* ChunkRecords whose query has no OFFSET
ChunkRecords_NoOffset(f, chunk_num) == Min(ChunkSize, TransferCount(f))

\* gbif.py:446-482  LIMIT chunk_size OFFSET chunk_num * chunk_size over the
\* (filtered) rows: chunk_records = len(lines) - 1
ChunkRecords(f, chunk_num) ==
    Max(0, Min(ChunkSize, TransferCount(f) - chunk_num * ChunkSize))

\* gbif.py:715  [i for i in range(max_chunks) if i not in completed_chunks]
RemainingOf(n, done) ==
    SelectSeq([i \in 1 .. n |-> i - 1], LAMBDA c : c \notin done)

RemainingChunks(done) == RemainingOf(MaxChunks(total_count, chunk_size), done)

\* ChunkBatches whose slices run one index into the next slice
ChunkBatches_Overlap(remaining, size) ==
    LET n == Len(remaining)
        nb == (n + size - 1) \div size
    IN  [j \in 1 .. nb |->
            SubSeq(remaining, (j - 1) * size + 1, Min(j * size + 1, n))]

\* ChunkBatches that gives every batch the head of the remaining list too
ChunkBatches_Shared(remaining, size) ==
    LET n == Len(remaining)
        nb == (n + size - 1) \div size
    IN  [j \in 1 .. nb |->
            IF j = 1 THEN SubSeq(remaining, 1, Min(size, n))
            ELSE <<remaining[1]>>
                 \o SubSeq(remaining, (j - 1) * size + 1, Min(j * size, n))]

\* gbif.py:731-734  slices of batch_size of the remaining list
ChunkBatches(remaining, size) ==
    LET n == Len(remaining)
        nb == (n + size - 1) \div size
    IN  [j \in 1 .. nb |->
            SubSeq(remaining, (j - 1) * size + 1, Min(j * size, n))]

Range(s) == {s[i] : i \in 1 .. Len(s)}

RECURSIVE SumOver(_, _)
SumOver(S, f) ==
    IF S = {} THEN 0
    ELSE LET x == CHOOSE y \in S : TRUE
         IN  f[x] + SumOver(S \ {x}, f)

\* SELECT COUNT(*) of the sink table (gbif.py:843)
SinkCount ==
    SumOver(Chunks, [k \in Chunks |-> sink[k] * ChunkRecords(filter_condition, k)])
        + sink_header

\* ---- the progress file: lines of characters ------------------------
\* a character is a token: a decimal digit, "sp" (white space), "a" (a
\* letter), "sup2" (a character str.isdigit accepts and int rejects, such as
\* a superscript two) or "bad" (a byte the decoder of open() rejects)
DigitChar == <<"0", "1", "2", "3", "4", "5", "6", "7", "8", "9">>
Digits == Range(DigitChar)
DigitValue(c) == (CHOOSE d \in 1 .. 10 : DigitChar[d] = c) - 1

\* Decimal that writes the last digit only
Decimal_LastDigit(n) == <<DigitChar[(n % 10) + 1]>>

\* f"{chunk_num}" (gbif.py:157)
RECURSIVE Decimal(_)
Decimal(n) ==
    IF n < 10 THEN <<DigitChar[n + 1]>>
    ELSE Append(Decimal(n \div 10), DigitChar[(n % 10) + 1])

\* int(line) of a line of decimal digits (gbif.py:143)
RECURSIVE IntOf(_)
IntOf(line) ==
    IF line = <<>> THEN 0
    ELSE 10 * IntOf(SubSeq(line, 1, Len(line) - 1))
            + DigitValue(line[Len(line)])

\* line.strip() (gbif.py:141)
RECURSIVE Strip(_)
Strip(line) ==
    IF line = <<>> THEN line
    ELSE IF Head(line) = "sp" THEN Strip(Tail(line))
    ELSE IF line[Len(line)] = "sp" THEN Strip(SubSeq(line, 1, Len(line) - 1))
    ELSE line

\* str.isdigit (gbif.py:142): non-empty and every character is a digit
IsDigit(line) ==
    line # <<>> /\ \A i \in 1 .. Len(line) : line[i] \in Digits \cup {"sup2"}

\* int() raises ValueError on a line str.isdigit accepted (gbif.py:143)
IntRaises(line) == \E i \in 1 .. Len(line) : line[i] \notin Digits

\* the decoder raises while the file is read (gbif.py:140)
Undecodable(lines) ==
    \E j \in 1 .. Len(lines) : \E i \in 1 .. Len(lines[j]) : lines[j][i] = "bad"

\* the lines int() is called on (gbif.py:140-143)
DigitLines(lines) ==
    {j \in 1 .. Len(lines) : IsDigit(Strip(lines[j]))}

\* gbif.py:132-147  load_progress of a file: no file configured or no file
\* gives the empty set, and so does any exception raised while reading
LoadProgress(configured, file) ==
    IF ~configured \/ ~file.exists THEN {}
    ELSE IF Undecodable(file.lines) THEN {}
    ELSE IF \E j \in DigitLines(file.lines) : IntRaises(Strip(file.lines[j]))
    THEN {}
    ELSE {IntOf(Strip(file.lines[j])) : j \in DigitLines(file.lines)}

load_progress == LoadProgress(progress_configured, progress_file)

\* sorted(completed_chunks) (gbif.py:156)
RECURSIVE Sorted(_)
Sorted(S) ==
    IF S = {} THEN <<>>
    ELSE LET m == CHOOSE x \in S : \A y \in S : x <= y
         IN  <<m>> \o Sorted(S \ {m})

\* gbif.py:156-157  one line per index of the set, in ascending order
ProgressLines(chunks) ==
    LET sorted == Sorted(chunks)
    IN  [i \in 1 .. Len(sorted) |-> Decimal(sorted[i])]

\* save_progress_unsafe that loses the largest index of the set
save_progress_drop(chunks) ==
    [exists |-> TRUE,
     lines |-> ProgressLines({c \in chunks : \E d \in chunks : d > c})]

\* gbif.py:149-159  save_progress_unsafe: rewrite the file from the set,
\* one index per line in ascending order; nothing without a configured file
save_progress_unsafe(chunks) ==
    IF ~progress_configured THEN progress_file
    ELSE [exists |-> TRUE, lines |-> ProgressLines(chunks)]

NoFile == [exists |-> FALSE, lines |-> <<>>]

\* gbif.py:169-173  clear_progress: remove the file if there is one
clear_progress == IF progress_configured THEN NoFile ELSE progress_file

\* ---- the splitter: split_large_csv --------------------------------
\* a file is a sequence of lines; line 0 is the header of the source and
\* line r > 0 its r-th data row.  split_dir is the sequence of the chunk
\* files chunk_001, chunk_002, ... and a file list the sequence of their
\* numbers
SourceOf(rows) == [i \in 1 .. rows + 1 |-> i - 1]

\* the data rows of a source: the lines after its first line
DataRows(source) == IF source = <<>> THEN 0 ELSE Len(source) - 1

\* what split_large_csv returned: None, or a list of file names
NotCalled == [returned |-> "no", files |-> <<>>]
None == [returned |-> "none", files |-> <<>>]
List(names) == [returned |-> "list", files |-> names]

\* gbif.py:182-186  the chunk files found in the directory, sorted
existing_splits(dir) == [i \in 1 .. Len(dir) |-> i]

\* SplitFiles that closes a chunk file one row late
SplitFiles_OneMore(source, size, n) ==
    LET nf == (n + size) \div (size + 1)
    IN  [f \in 1 .. nf |->
            <<source[1]>> \o
            SubSeq(source, (f - 1) * (size + 1) + 2,
                   Min(f * (size + 1), n) + 1)]

\* SplitFiles that writes the row that opens a chunk file over the one
\* before it
SplitFiles_LosesRow(source, size, n) ==
    LET nf == (n + size - 1) \div size
    IN  [f \in 1 .. nf |->
            <<source[1]>> \o
            SubSeq(source, (f - 1) * size + 2,
                   Min(f * size, n) + (IF f < nf THEN 0 ELSE 1))]

\* gbif.py:198-234  the chunk files after the first n data rows of the
\* source were written: a row that finds current_chunk_rows = 0 opens the
\* next file and writes the header to it
SplitFiles(source, size, n) ==
    LET nf == (n + size - 1) \div size
    IN  [f \in 1 .. nf |->
            <<source[1]>> \o
            SubSeq(source, (f - 1) * size + 2, Min(f * size, n) + 1)]

\* gbif.py:207-217  the next chunk file was opened and holds its header only
WithOpenedFile(dir, source) == Append(dir, <<source[1]>>)

\* split_large_csv that splits again into a directory that has chunk files
split_large_csv_Again(dir, source, size) ==
    LET files == SplitFiles(source, size, DataRows(source))
    IN  [dir |-> files, result |-> List(existing_splits(files))]

\* gbif.py:175-241  split_large_csv without error: [dir, result]
split_large_csv(dir, source, size) ==
    IF dir # <<>>
    THEN [dir |-> dir, result |-> List(existing_splits(dir))]
    ELSE LET files == SplitFiles(source, size, DataRows(source))
         IN  [dir |-> files, result |-> List(existing_splits(files))]

\* the directories an interrupted split of the source can leave: n rows
\* written, or n rows written and the next file opened
InterruptedSplits(source, size) ==
    LET rows == DataRows(source)
    IN  {SplitFiles(source, size, n) : n \in 0 .. rows} \cup
        {WithOpenedFile(SplitFiles(source, size, n), source) :
            n \in {m \in 0 .. rows - 1 : m % size = 0}}

\* ---- the copy of one chunk to the sink -----------------------------
\* gbif.py:452-464  COPY (SELECT ...) TO temp_csv (FORMAT CSV, HEADER): the
\* header line, then one line per selected row
ExportLines(records) == [i \in 1 .. records + 1 |-> i - 1]

\* gbif.py:509  the chunk is sent with its header line
WithHeader(chunk_num, existed) == chunk_num = 0 /\ ~existed

\* gbif.py:508-533 that never strips the header line
SentLines_KeepHeader(lines, with_header) == lines

\* gbif.py:508-533  the lines written to the COPY: all of them, or all but
\* the first one (next(f))
SentLines(lines, with_header) == IF with_header THEN lines ELSE Tail(lines)

\* COPY ... FROM STDIN WITH CSV [HEADER]: the rows the sink stores; the
\* HEADER option discards the first line it receives
CopyIn(sent, with_header) ==
    IF with_header /\ sent # <<>> THEN Tail(sent) ELSE sent

HeaderLines(stored) == Cardinality({i \in 1 .. Len(stored) : stored[i] = 0})

\* gbif.py:738-741  work_items: the worker_id of a batch is its index in
\* enumerate(chunk_batches), counted from 0
worker_id(b) == b - 1

\* a name that leaves the worker_id out
temp_csv_path_Shared(id) == <<"temp_worker", "table", ".csv">>

\* gbif.py:434  f"temp_worker_{worker_id}_{self.config.table_name}.csv", a
\* path relative to the working directory; there is one table per run
temp_csv_path(id) == <<"temp_worker", id, "table", ".csv">>

\* gbif.py:416-434  a worker that has not started yet; table_exists is the
\* flag of its work item (gbif.py:741)
NewWorker ==
    [pc |-> "queued", i |-> 1, processed_chunks |-> <<>>,
     batch_record_count |-> 0, txn |-> {}, lock_acquired |-> FALSE,
     updated |-> FALSE, success |-> FALSE, result_chunks |-> 0,
     result_records |-> 0, table_exists |-> FALSE, txn_rows |-> 0,
     txn_header |-> 0, header_sent |-> {}, temp_csv |-> FALSE]

\* gbif.py:452-467  COPY ... TO temp_csv writes the worker's export file
copy_to(temp_csv) == TRUE

\* gbif.py:480, 490, 496-497, 555-556, 566-567  os.remove(temp_csv), where
\* guarded by os.path.exists also for a file that was not written
os_remove(temp_csv) == FALSE

\* an injected failure: an exception raised by the sink, the staging store,
\* the file system or the console
Fault == faults < MaxFaults /\ faults' = faults + 1

Batches == DOMAIN workers
Running == {b \in Batches : workers[b].pc \notin {"queued", "returned"}}

\* an entry point that was not called
Idle == [pc |-> "idle"]

EnginesIdle ==
    /\ stream = Idle
    /\ smart_filter = Idle
    /\ loader = Idle
    /\ pool = Idle
    /\ stager = Idle

\* ---- initial state --------------------------------------------------
Init ==
    /\ sink_table = FALSE
    /\ sink = [k \in Chunks |-> 0]
    /\ sink_header = 0
    /\ progress_file = NoFile
    /\ split_dir = <<>>
    /\ duckdb_file \in {"absent", "loaded"}
    /\ filter_condition \in BOOLEAN
    /\ batch_size \in 1 .. MaxBatchSize
    /\ progress_configured = TRUE
    /\ csv_file = SourceOf(TotalCount)
    /\ split_chunk_size = SplitChunkSize
    /\ total_count = TotalCount
    /\ chunk_size = ChunkSize
    /\ pc = "start"
    /\ completed_chunks = {}
    /\ records_found = 0
    /\ progress_lock = FALSE
    /\ table_exists = FALSE
    /\ chunk_batches = <<>>
    /\ workers = <<>>
    /\ verified = FALSE
    /\ chunk_files = NotCalled
    /\ run = 1
    /\ ledger_at_start = {}
    /\ table_at_start = FALSE
    /\ exported = {}
    /\ copied = {}
    /\ connected = FALSE
    /\ kills = 0
    /\ faults = 0
    /\ EnginesIdle

\* ---- the pipeline: run_full_pipeline --------------------------------
\* gbif.py:929-932  step 1: split_large_csv returns the chunk files it found
\* or wrote; an empty list ends the pipeline with False
Split ==
    /\ pc = "start"
    /\ LET r == split_large_csv(split_dir, csv_file, split_chunk_size)
       IN  /\ split_dir' = r.dir
           /\ chunk_files' = r.result
           /\ pc' = IF r.result.files = <<>> THEN "failed" ELSE "staging"
    /\ UNCHANGED <<the_sink, progress_file, duckdb_file, config, engines,
                   completed_chunks, records_found, progress_lock,
                   table_exists, chunk_batches, workers, verified, run,
                   history>>

\* gbif.py:197-241, 931-932  an I/O error while the source is split: the
\* files written so far stay, split_large_csv returns None and the pipeline
\* returns False
SplitError ==
    /\ pc = "start"
    /\ split_dir = <<>>
    /\ split_dir' \in InterruptedSplits(csv_file, split_chunk_size)
    /\ chunk_files' = None
    /\ pc' = "failed"
    /\ Fault
    /\ UNCHANGED <<the_sink, progress_file, duckdb_file, config, engines,
                   completed_chunks, records_found, progress_lock,
                   table_exists, chunk_batches, workers, verified, run,
                   this_run, kills>>

\* gbif.py:305-360, 934-937  step 2: process_all_chunks returns the staging
\* store when its table can be counted; else it recreates the file, and the
\* first load_chunk_to_duckdb(duck_conn, chunk_file, ...) raises TypeError
\* outside any handler (the parameters are chunk_file, duck_conn), which
\* ends run_full_pipeline with the exception
Stage ==
    /\ pc = "staging"
    /\ IF duckdb_file = "loaded"
       THEN pc' = "idle" /\ UNCHANGED duckdb_file
       ELSE /\ duckdb_file' = "empty"
            /\ pc' = IF split_dir = <<>> THEN "failed" ELSE "crashed"
    /\ UNCHANGED <<the_sink, progress_file, split_dir, config, engines,
                   completed_chunks, records_found, progress_lock,
                   table_exists, chunk_batches, workers, verified,
                   chunk_files, run, history>>

\* the sink table is dropped by its owner while the pipeline is not running
DropTable ==
    /\ pc = "start"
    /\ sink_table
    /\ sink_table' = FALSE
    /\ sink' = [k \in Chunks |-> 0]
    /\ sink_header' = 0
    /\ Fault
    /\ UNCHANGED <<progress_file, staging, config, engines, pc, completed_chunks,
                   records_found, progress_lock, table_exists, chunk_batches,
                   workers, verified, chunk_files, run, this_run, kills>>

\* ---- the orchestrator: parallel_transfer ----------------------------
\* StartRun that keeps the loaded ledger when the table was created
StartRun_KeepLedger ==
    /\ pc = "idle"
    /\ LET loaded == load_progress
           found == sink_table
           remaining == RemainingChunks(loaded)
           batches == ChunkBatches(remaining, batch_size)
       IN  /\ sink_table' = TRUE
           /\ table_exists' = found
           /\ completed_chunks' = loaded
           /\ progress_file' = progress_file
           /\ ledger_at_start' = loaded
           /\ table_at_start' = sink_table
           /\ chunk_batches' = batches
           /\ workers' = [b \in 1 .. Len(batches) |->
                             [NewWorker EXCEPT !.table_exists = found]]
           /\ pc' = IF remaining = <<>> THEN "done" ELSE "transfer"
    /\ connected' = TRUE
    /\ UNCHANGED <<sink, sink_header, staging, config, engines, records_found,
                   progress_lock, verified, run, chunk_files, exported, copied,
                   kills, faults>>

\* StartRun that goes on to verify_transfer when no chunk remains
StartRun_VerifyAnyway ==
    /\ pc = "idle"
    /\ LET loaded == load_progress
           found == sink_table
           cleared == ~found /\ loaded # {}
           ledger == IF cleared THEN {} ELSE loaded
           remaining == RemainingChunks(ledger)
           batches == ChunkBatches(remaining, batch_size)
       IN  /\ sink_table' = TRUE
           /\ table_exists' = found
           /\ completed_chunks' = ledger
           /\ progress_file' = IF cleared \/ remaining = <<>>
                                THEN clear_progress ELSE progress_file
           /\ verified' = IF remaining = <<>> THEN TRUE ELSE verified
           /\ ledger_at_start' = loaded
           /\ table_at_start' = sink_table
           /\ chunk_batches' = batches
           /\ workers' = [b \in 1 .. Len(batches) |->
                             [NewWorker EXCEPT !.table_exists = found]]
           /\ pc' = IF remaining = <<>> THEN "done" ELSE "transfer"
    /\ connected' = TRUE
    /\ UNCHANGED <<sink, sink_header, staging, config, engines, records_found,
                   progress_lock, run, chunk_files, exported, copied,
                   kills, faults>>

\* gbif.py:686-741 with setup_database (gbif.py:374-409) finding or
\* creating the table: load the ledger, discard it when the table was
\* created, build the batches; no remaining chunk ends the run (726-728)
StartRun ==
    /\ pc = "idle"
    /\ LET loaded == load_progress
           found == sink_table
           cleared == ~found /\ loaded # {}
           ledger == IF cleared THEN {} ELSE loaded
           remaining == RemainingChunks(ledger)
           batches == ChunkBatches(remaining, batch_size)
       IN  /\ sink_table' = TRUE
           /\ table_exists' = found
           /\ completed_chunks' = ledger
           /\ progress_file' = IF cleared THEN clear_progress ELSE progress_file
           /\ ledger_at_start' = loaded
           /\ table_at_start' = sink_table
           /\ chunk_batches' = batches
           /\ workers' = [b \in 1 .. Len(batches) |->
                             [NewWorker EXCEPT !.table_exists = found]]
           /\ pc' = IF remaining = <<>> THEN "done" ELSE "transfer"
    /\ connected' = TRUE
    /\ UNCHANGED <<sink, sink_header, staging, config, engines, records_found,
                   progress_lock, verified, run, chunk_files, exported, copied,
                   kills, faults>>

\* gbif.py:411-414 and 690-694: setup_database raises, reports the table as
\* absent and leaves the sink as it was
StartRunSetupError ==
    /\ pc = "idle"
    /\ LET loaded == load_progress
           cleared == loaded # {}
           remaining == RemainingChunks({})
           batches == ChunkBatches(remaining, batch_size)
       IN  /\ table_exists' = FALSE
           /\ completed_chunks' = {}
           /\ progress_file' = IF cleared THEN clear_progress ELSE progress_file
           /\ ledger_at_start' = loaded
           /\ table_at_start' = sink_table
           /\ chunk_batches' = batches
           /\ workers' = [b \in 1 .. Len(batches) |-> NewWorker]
           /\ pc' = IF remaining = <<>> THEN "done" ELSE "transfer"
    /\ connected' = TRUE
    /\ Fault
    /\ UNCHANGED <<the_sink, staging, config, engines, records_found,
                   progress_lock, verified, run, chunk_files, exported, copied, kills>>

\* gbif.py:686-700, 940  the table is set up and the ledger loaded, then
\* the count of the rows the filter keeps raises (the filter cannot be run
\* on the staged columns): the exception leaves parallel_transfer and
\* run_full_pipeline
StartRunFilterError ==
    /\ pc = "idle"
    /\ filter_condition
    /\ LET loaded == load_progress
           found == sink_table
           cleared == ~found /\ loaded # {}
       IN  /\ sink_table' = TRUE
           /\ table_exists' = found
           /\ completed_chunks' = IF cleared THEN {} ELSE loaded
           /\ progress_file' = IF cleared THEN clear_progress ELSE progress_file
           /\ ledger_at_start' = loaded
           /\ table_at_start' = sink_table
    /\ pc' = "crashed"
    /\ connected' = TRUE
    /\ Fault
    /\ UNCHANGED <<sink, sink_header, staging, config, engines, records_found,
                   progress_lock, chunk_batches, workers, verified, run,
                   chunk_files, exported, copied, kills>>

\* ---- a worker: process_chunk_batch ----------------------------------
Returned(w, ok) ==
    [w EXCEPT !.pc = "returned", !.txn = {}, !.txn_rows = 0,
              !.txn_header = 0, !.success = ok,
              !.result_chunks = IF ok THEN Len(w.processed_chunks) ELSE 0,
              !.result_records = IF ok THEN w.batch_record_count ELSE 0]

CanStart(b) ==
    /\ pc = "transfer"
    /\ b \in Batches
    /\ workers[b].pc = "queued"
    /\ \A c \in Batches : c < b => workers[c].pc # "queued"
    /\ Cardinality(Running) < MaxWorkers

\* Connect whose worker creates the sink table
Connect_CreateTable(b) ==
    /\ CanStart(b)
    /\ workers' = [workers EXCEPT ![b].pc = "loop"]
    /\ sink_table' = TRUE
    /\ UNCHANGED <<sink, sink_header, progress_file, staging, config, engines, pc,
                   completed_chunks, records_found, progress_lock,
                   table_exists, chunk_batches, verified, run, chunk_files,
                   history>>

\* gbif.py:420-434  the pool starts the batch; the sink connection opens
Connect(b) ==
    /\ CanStart(b)
    /\ workers' = [workers EXCEPT ![b].pc = "loop"]
    /\ UNCHANGED <<durable, config, engines, pc, completed_chunks,
                   records_found, progress_lock, table_exists, chunk_batches,
                   verified, run, chunk_files, history>>

\* gbif.py:428, 641-649  get_db_connection raises: failed result
ConnectFail(b) ==
    /\ CanStart(b)
    /\ workers' = [workers EXCEPT ![b] = Returned(@, FALSE)]
    /\ Fault
    /\ UNCHANGED <<durable, config, engines, pc, completed_chunks,
                   records_found, progress_lock, table_exists, chunk_batches,
                   verified, run, chunk_files, ledger_at_start, table_at_start, connected, exported, copied, kills>>

InLoop(b) ==
    /\ pc = "transfer"
    /\ b \in Batches
    /\ workers[b].pc = "loop"
    /\ workers[b].i <= Len(chunk_batches[b])

\* ProcessChunk that commits the sink transaction after every chunk
ProcessChunk_CommitEach(b) ==
    /\ InLoop(b)
    /\ LET w == workers[b]
           chunk_num == chunk_batches[b][w.i]
           chunk_records == ChunkRecords(filter_condition, chunk_num)
       IN  /\ chunk_num \notin completed_chunks
           /\ chunk_records > 0
           /\ sink_table
           /\ workers' = [workers EXCEPT
                   ![b].i = @ + 1,
                        ![b].temp_csv = os_remove(copy_to(@)),
                   ![b].header_sent =
                       IF WithHeader(chunk_num, w.table_exists)
                       THEN @ \cup {chunk_num} ELSE @,
                   ![b].processed_chunks = Append(@, chunk_num),
                   ![b].batch_record_count = @ + chunk_records]
           /\ sink' = [sink EXCEPT ![chunk_num] = @ + 1]
           /\ exported' = exported \cup {chunk_num}
           /\ copied' = copied \cup {chunk_num}
    /\ UNCHANGED <<sink_table, sink_header, progress_file, staging, config, engines, pc,
                   completed_chunks,
                   records_found, progress_lock, table_exists, chunk_batches,
                   verified, run, chunk_files, ledger_at_start, table_at_start, connected, kills,
                   faults>>

\* ProcessChunk that rolls the sink transaction back on an empty export
ProcessChunk_EmptyRollsBack(b) ==
    /\ InLoop(b)
    /\ LET w == workers[b]
           chunk_num == chunk_batches[b][w.i]
           lines == ExportLines(ChunkRecords(filter_condition, chunk_num))
           chunk_records == Len(lines) - 1
           with_header == WithHeader(chunk_num, w.table_exists)
           stored == CopyIn(SentLines(lines, with_header), with_header)
       IN  IF chunk_num \in completed_chunks
           THEN /\ workers' = [workers EXCEPT ![b].i = @ + 1]
                /\ UNCHANGED <<exported, copied>>
           ELSE IF Len(lines) <= 1
           THEN /\ workers' = [workers EXCEPT ![b].i = @ + 1,
                        ![b].temp_csv = os_remove(copy_to(@)), ![b].txn = {},
                                              ![b].txn_rows = 0,
                                              ![b].txn_header = 0]
                /\ exported' = exported \cup {chunk_num}
                /\ UNCHANGED copied
           ELSE IF ~sink_table
           THEN \* the COPY into a missing table raises (564-569)
                /\ workers' = [workers EXCEPT ![b].i = @ + 1,
                        ![b].temp_csv = os_remove(copy_to(@)), ![b].txn = {},
                                              ![b].txn_rows = 0,
                                              ![b].txn_header = 0]
                /\ exported' = exported \cup {chunk_num}
                /\ UNCHANGED copied
           ELSE /\ workers' = [workers EXCEPT
                        ![b].i = @ + 1,
                        ![b].temp_csv = os_remove(copy_to(@)),
                        ![b].txn = @ \cup {chunk_num},
                        ![b].txn_rows = @ + Len(stored),
                        ![b].txn_header = @ + HeaderLines(stored),
                        ![b].header_sent =
                            IF with_header THEN @ \cup {chunk_num} ELSE @,
                        ![b].processed_chunks = Append(@, chunk_num),
                        ![b].batch_record_count = @ + chunk_records]
                /\ exported' = exported \cup {chunk_num}
                /\ copied' = copied \cup {chunk_num}
    /\ UNCHANGED <<durable, config, engines, pc, completed_chunks,
                   records_found, progress_lock, table_exists, chunk_batches,
                   verified, run, chunk_files, ledger_at_start, table_at_start, connected, kills, faults>>

\* gbif.py:437-562  one pass of the chunk loop without exception: skip a
\* completed chunk, skip an empty export, else copy and record the chunk
ProcessChunk(b) ==
    /\ InLoop(b)
    /\ LET w == workers[b]
           chunk_num == chunk_batches[b][w.i]
           lines == ExportLines(ChunkRecords(filter_condition, chunk_num))
           chunk_records == Len(lines) - 1
           with_header == WithHeader(chunk_num, w.table_exists)
           stored == CopyIn(SentLines(lines, with_header), with_header)
       IN  IF chunk_num \in completed_chunks
           THEN /\ workers' = [workers EXCEPT ![b].i = @ + 1]
                /\ UNCHANGED <<exported, copied>>
           ELSE IF Len(lines) <= 1
           THEN /\ workers' = [workers EXCEPT ![b].i = @ + 1,
                        ![b].temp_csv = os_remove(copy_to(@))]
                /\ exported' = exported \cup {chunk_num}
                /\ UNCHANGED copied
           ELSE IF ~sink_table
           THEN \* the COPY into a missing table raises (564-569)
                /\ workers' = [workers EXCEPT ![b].i = @ + 1,
                        ![b].temp_csv = os_remove(copy_to(@)), ![b].txn = {},
                                              ![b].txn_rows = 0,
                                              ![b].txn_header = 0]
                /\ exported' = exported \cup {chunk_num}
                /\ UNCHANGED copied
           ELSE /\ workers' = [workers EXCEPT
                        ![b].i = @ + 1,
                        ![b].temp_csv = os_remove(copy_to(@)),
                        ![b].txn = @ \cup {chunk_num},
                        ![b].txn_rows = @ + Len(stored),
                        ![b].txn_header = @ + HeaderLines(stored),
                        ![b].header_sent =
                            IF with_header THEN @ \cup {chunk_num} ELSE @,
                        ![b].processed_chunks = Append(@, chunk_num),
                        ![b].batch_record_count = @ + chunk_records]
                /\ exported' = exported \cup {chunk_num}
                /\ copied' = copied \cup {chunk_num}
    /\ UNCHANGED <<durable, config, engines, pc, completed_chunks,
                   records_found, progress_lock, table_exists, chunk_batches,
                   verified, run, chunk_files, ledger_at_start, table_at_start, connected, kills, faults>>

\* gbif.py:564-569  the export or the copy raises: pg_conn.rollback()
\* discards everything the connection has not committed, the loop goes on
ChunkError(b) ==
    /\ InLoop(b)
    /\ chunk_batches[b][workers[b].i] \notin completed_chunks
    /\ \E written \in BOOLEAN :
          workers' = [workers EXCEPT
                         ![b].i = @ + 1, ![b].txn = {},
                         ![b].txn_rows = 0, ![b].txn_header = 0,
                         ![b].temp_csv = os_remove(IF written THEN copy_to(@)
                                                   ELSE @)]
    /\ exported' = exported \cup {chunk_batches[b][workers[b].i]}
    /\ Fault
    /\ UNCHANGED <<durable, config, engines, pc, completed_chunks,
                   records_found, progress_lock, table_exists, chunk_batches,
                   verified, run, chunk_files, ledger_at_start, table_at_start, connected, copied, kills>>

\* ChunkUnreadable that leaves the export file it could not read
ChunkUnreadable_KeepsFile(b) ==
    /\ InLoop(b)
    /\ chunk_batches[b][workers[b].i] \notin completed_chunks
    /\ workers' = [workers EXCEPT ![b].i = @ + 1,
                                  ![b].temp_csv = copy_to(@)]
    /\ exported' = exported \cup {chunk_batches[b][workers[b].i]}
    /\ Fault
    /\ UNCHANGED <<durable, config, engines, pc, completed_chunks,
                   records_found, progress_lock, table_exists, chunk_batches,
                   verified, run, chunk_files, ledger_at_start, table_at_start, connected, copied, kills>>

\* gbif.py:483-498  the export file cannot be read: it is removed; continue,
\* no rollback
ChunkUnreadable(b) ==
    /\ InLoop(b)
    /\ chunk_batches[b][workers[b].i] \notin completed_chunks
    /\ workers' = [workers EXCEPT ![b].i = @ + 1,
                                  ![b].temp_csv = os_remove(copy_to(@))]
    /\ exported' = exported \cup {chunk_batches[b][workers[b].i]}
    /\ Fault
    /\ UNCHANGED <<durable, config, engines, pc, completed_chunks,
                   records_found, progress_lock, table_exists, chunk_batches,
                   verified, run, chunk_files, ledger_at_start, table_at_start, connected, copied, kills>>

LoopDone(b) ==
    /\ pc = "transfer"
    /\ b \in Batches
    /\ workers[b].pc = "loop"
    /\ workers[b].i > Len(chunk_batches[b])

\* gbif.py:571-577  one commit after the loop, if a chunk was processed
Commit(b) ==
    /\ LoopDone(b)
    /\ LET w == workers[b]
       IN  IF w.processed_chunks # <<>>
           THEN /\ sink' = [k \in Chunks |->
                              IF k \in w.txn THEN sink[k] + 1 ELSE sink[k]]
                /\ sink_header' = sink_header + w.txn_header
                /\ workers' = [workers EXCEPT ![b].pc = "acquire",
                                              ![b].txn = {},
                                              ![b].txn_rows = 0,
                                              ![b].txn_header = 0]
           ELSE /\ workers' = [workers EXCEPT ![b].pc = "acquire"]
                /\ UNCHANGED <<sink, sink_header>>
    /\ UNCHANGED <<sink_table, progress_file, staging, config, engines, pc,
                   completed_chunks, records_found, progress_lock,
                   table_exists, chunk_batches, verified, run, chunk_files, history>>

\* gbif.py:575, 641-649  the commit raises: failed result, nothing committed
CommitFail(b) ==
    /\ LoopDone(b)
    /\ workers[b].processed_chunks # <<>>
    /\ workers' = [workers EXCEPT ![b] = Returned(@, FALSE)]
    /\ Fault
    /\ UNCHANGED <<durable, config, engines, pc, completed_chunks,
                   records_found, progress_lock, table_exists, chunk_batches,
                   verified, run, chunk_files, ledger_at_start, table_at_start, connected, exported, copied, kills>>

At(b, p) == pc = "transfer" /\ b \in Batches /\ workers[b].pc = p

\* gbif.py:585  progress_lock.acquire(timeout=10) succeeds
AcquireLock(b) ==
    /\ At(b, "acquire")
    /\ ~progress_lock
    /\ progress_lock' = TRUE
    /\ workers' = [workers EXCEPT ![b].pc = "locked",
                                  ![b].lock_acquired = TRUE]
    /\ UNCHANGED <<durable, config, engines, pc, completed_chunks,
                   records_found, table_exists, chunk_batches, verified, run, chunk_files,
                   history>>

\* LockTimeout that records the progress of the batch without the lock
LockTimeout_Update(b) ==
    /\ At(b, "acquire")
    /\ progress_lock
    /\ completed_chunks' =
           completed_chunks \cup Range(workers[b].processed_chunks)
    /\ records_found' = records_found + workers[b].batch_record_count
    /\ workers' = [workers EXCEPT ![b] = Returned(@, TRUE)]
    /\ Fault
    /\ UNCHANGED <<durable, config, engines, pc, progress_lock, table_exists,
                   chunk_batches, verified, run, chunk_files, ledger_at_start,
                   table_at_start, connected, exported, copied, kills>>

\* gbif.py:587-589, 629-639  the lock stays taken for 10 seconds: the
\* progress update is skipped and the batch result returned
LockTimeout(b) ==
    /\ At(b, "acquire")
    /\ progress_lock
    /\ workers' = [workers EXCEPT ![b] = Returned(@, TRUE)]
    /\ Fault
    /\ UNCHANGED <<durable, config, engines, pc, completed_chunks,
                   records_found, progress_lock, table_exists, chunk_batches,
                   verified, run, chunk_files, ledger_at_start, table_at_start, connected, exported, copied, kills>>

\* gbif.py:587-588, 621-622  the lock stays taken for 10 seconds and the
\* report of the timeout raises: the handler is next, the lock is not held
LockTimeoutError(b) ==
    /\ At(b, "acquire")
    /\ progress_lock
    /\ workers' = [workers EXCEPT ![b].pc = "handler"]
    /\ Fault
    /\ UNCHANGED <<durable, config, engines, pc, completed_chunks, records_found,
                   progress_lock, table_exists, chunk_batches, verified, run, chunk_files,
                   ledger_at_start, table_at_start, connected, exported, copied, kills>>

\* gbif.py:594-606  union the processed chunks into the ledger and add the
\* records of the batch to the counter
UpdateProgress(b) ==
    /\ At(b, "locked")
    /\ completed_chunks' =
           completed_chunks \cup Range(workers[b].processed_chunks)
    /\ records_found' = records_found + workers[b].batch_record_count
    /\ workers' = [workers EXCEPT ![b].pc = "save", ![b].updated = TRUE]
    /\ UNCHANGED <<durable, config, engines, pc, progress_lock, table_exists,
                   chunk_batches, verified, run, chunk_files, history>>

\* gbif.py:608-614  rewrite the progress file from the whole ledger
SaveProgress(b) ==
    /\ At(b, "save")
    /\ progress_file' = save_progress_unsafe(completed_chunks)
    /\ workers' = [workers EXCEPT ![b].pc = "release"]
    /\ UNCHANGED <<the_sink, staging, config, engines, pc, completed_chunks,
                   records_found, progress_lock, table_exists, chunk_batches,
                   verified, run, chunk_files, history>>

\* gbif.py:616-619, 629-639  finally: release the lock; the batch returns
ReleaseLock(b) ==
    /\ At(b, "release")
    /\ progress_lock' = FALSE
    /\ workers' = [workers EXCEPT ![b] = Returned(@, TRUE)]
    /\ UNCHANGED <<durable, config, engines, pc, completed_chunks,
                   records_found, table_exists, chunk_batches, verified, run, chunk_files,
                   history>>

\* gbif.py:591-621  a statement of the locked section or of its cleanup
\* raises: the finally clause has released the lock, the handler is next
ProgressError(b) ==
    /\ At(b, "locked") \/ At(b, "save") \/ At(b, "release")
    /\ progress_lock' = FALSE
    /\ workers' = [workers EXCEPT ![b].pc = "handler"]
    /\ Fault
    /\ UNCHANGED <<durable, config, engines, pc, completed_chunks,
                   records_found, table_exists, chunk_batches, verified, run, chunk_files,
                   ledger_at_start, table_at_start, connected, exported, copied, kills>>

\* gbif.py:621-639  the handler releases the lock once more, whoever holds
\* it (a release of an unlocked lock raises and is swallowed)
HandlerRelease(b) ==
    /\ At(b, "handler")
    /\ progress_lock' = FALSE
    /\ workers' = [workers EXCEPT ![b] = Returned(@, TRUE)]
    /\ UNCHANGED <<durable, config, engines, pc, completed_chunks,
                   records_found, table_exists, chunk_batches, verified, run, chunk_files,
                   history>>

\* gbif.py:577-579, 629-632, 641-649  a report written after the commit
\* (before the lock is requested) or after the release of the lock raises:
\* the outer handler returns the failed result
BatchReportError(b) ==
    /\ At(b, "acquire") \/ At(b, "release")
    /\ progress_lock' = IF workers[b].pc = "release" THEN FALSE
                        ELSE progress_lock
    /\ workers' = [workers EXCEPT ![b] = Returned(@, FALSE)]
    /\ Fault
    /\ UNCHANGED <<durable, config, engines, pc, completed_chunks,
                   records_found, table_exists, chunk_batches, verified, run, chunk_files,
                   ledger_at_start, table_at_start, connected, exported, copied, kills>>

\* ---- verification and the end of a run ------------------------------
AllReturned == \A b \in Batches : workers[b].pc = "returned"

\* gbif.py:768-832, 834-878  every future is done; verify_transfer counts
\* the sink rows and removes the progress file
Verify ==
    /\ pc = "transfer"
    /\ AllReturned
    /\ progress_file' = clear_progress
    /\ verified' = TRUE
    /\ pc' = "done"
    /\ UNCHANGED <<the_sink, staging, config, engines, completed_chunks,
                   records_found, progress_lock, table_exists, chunk_batches,
                   workers, run, chunk_files, history>>

\* gbif.py:880-881  verification raises: the progress file is kept
VerifyFail ==
    /\ pc = "transfer"
    /\ AllReturned
    /\ verified' = TRUE
    /\ pc' = "done"
    /\ Fault
    /\ UNCHANGED <<durable, config, engines, completed_chunks,
                   records_found, progress_lock, table_exists, chunk_batches,
                   workers, run, chunk_files, ledger_at_start, table_at_start, connected, exported, copied, kills>>

\* gbif.py:85-91  a new process: FlexibleDataProcessor.__init__
FreshProcess ==
    /\ pc' = "start"
    /\ completed_chunks' = {}
    /\ records_found' = 0
    /\ progress_lock' = FALSE
    /\ table_exists' = FALSE
    /\ chunk_batches' = <<>>
    /\ workers' = <<>>
    /\ verified' = FALSE
    /\ chunk_files' = NotCalled
    /\ run' = run + 1
    /\ ledger_at_start' = {}
    /\ table_at_start' = FALSE
    /\ exported' = {}
    /\ copied' = {}
    /\ connected' = FALSE

\* the process is killed during the transfer: memory and uncommitted sink
\* transactions are lost, the sink and the progress file stay
Kill ==
    /\ pc = "transfer"
    /\ run < MaxRuns
    /\ FreshProcess
    /\ kills' = kills + 1
    /\ UNCHANGED <<durable, config, engines, faults>>

\* gbif.py:923-946  the pipeline is run again after a run that ended
NextRun ==
    /\ pc \in {"done", "failed", "crashed"}
    /\ run < MaxRuns
    /\ FreshProcess
    /\ UNCHANGED <<durable, config, engines, kills, faults>>

BatchIds == 1 .. max_chunks

Next ==
    \/ Split
    \/ SplitError
    \/ Stage
    \/ DropTable
    \/ StartRun
    \/ StartRunSetupError
    \/ StartRunFilterError
    \/ \E b \in BatchIds : Connect(b)
    \/ \E b \in BatchIds : ConnectFail(b)
    \/ \E b \in BatchIds : ProcessChunk(b)
    \/ \E b \in BatchIds : ChunkError(b)
    \/ \E b \in BatchIds : ChunkUnreadable(b)
    \/ \E b \in BatchIds : Commit(b)
    \/ \E b \in BatchIds : CommitFail(b)
    \/ \E b \in BatchIds : AcquireLock(b)
    \/ \E b \in BatchIds : LockTimeout(b)
    \/ \E b \in BatchIds : LockTimeoutError(b)
    \/ \E b \in BatchIds : UpdateProgress(b)
    \/ \E b \in BatchIds : SaveProgress(b)
    \/ \E b \in BatchIds : ReleaseLock(b)
    \/ \E b \in BatchIds : ProgressError(b)
    \/ \E b \in BatchIds : HandlerRelease(b)
    \/ \E b \in BatchIds : BatchReportError(b)
    \/ Verify
    \/ VerifyFail
    \/ Kill
    \/ NextRun

Spec == Init /\ [][Next]_vars

\* ---- the splitter on its own ----------------------------------------
\* gbif.py:85-91  the memory of a process that has just been constructed
FreshMemory ==
    /\ records_found = 0
    /\ progress_lock = FALSE
    /\ table_exists = FALSE
    /\ chunk_batches = <<>>
    /\ workers = <<>>
    /\ verified = FALSE
    /\ chunk_files = NotCalled
    /\ run = 1
    /\ ledger_at_start = {}
    /\ table_at_start = FALSE
    /\ exported = {}
    /\ copied = {}
    /\ connected = FALSE
    /\ kills = 0
    /\ faults = 0
    /\ EnginesIdle

\* a sink nothing was written to
EmptySink ==
    /\ sink_table = FALSE
    /\ sink = [k \in Chunks |-> 0]
    /\ sink_header = 0

\* the sources given to the splitter: an empty file, or a header and up to
\* MaxRows data rows
Sources == {<<>>} \cup {SourceOf(r) : r \in 0 .. MaxRows}

SplitInit ==
    /\ EmptySink
    /\ progress_file = NoFile
    /\ split_dir = <<>>
    /\ duckdb_file = "loaded"
    /\ filter_condition = FALSE
    /\ batch_size = 1
    /\ progress_configured = TRUE
    /\ csv_file \in Sources
    /\ split_chunk_size \in 1 .. MaxSplitSize
    /\ total_count = TotalCount
    /\ chunk_size = ChunkSize
    /\ pc = "start"
    /\ completed_chunks = {}
    /\ FreshMemory

\* the process is killed while split_large_csv writes the chunk files
SplitKill ==
    /\ pc = "start"
    /\ split_dir = <<>>
    /\ run < MaxRuns
    /\ split_dir' \in InterruptedSplits(csv_file, split_chunk_size)
    /\ FreshProcess
    /\ kills' = kills + 1
    /\ UNCHANGED <<the_sink, progress_file, duckdb_file, config, engines, faults>>

\* gbif.py:930  split_large_csv is called again by a new process
SplitAgain ==
    /\ pc = "staging"
    /\ run < MaxRuns
    /\ FreshProcess
    /\ UNCHANGED <<durable, config, engines, kills, faults>>

SplitNext ==
    \/ Split
    \/ SplitError
    \/ SplitKill
    \/ SplitAgain
    \/ NextRun

SplitSpec == SplitInit /\ [][SplitNext]_vars

\* ---- the batch planner on its own -----------------------------------
\* the ledgers found at the start of a run
PlanLedgers == SUBSET (0 .. MaxPlanSize + 1)

\* the progress file that holds a ledger
LedgerFile(chunks) ==
    IF chunks = {} THEN NoFile
    ELSE [exists |-> TRUE, lines |-> ProgressLines(chunks)]

\* gbif.py:686  parallel_transfer is about to start: the source is split and
\* staged, the sink table exists or not, the progress file holds a ledger
PlanInit ==
    /\ sink_table \in BOOLEAN
    /\ sink = [k \in Chunks |-> 0]
    /\ sink_header = 0
    /\ \E ledger \in PlanLedgers : progress_file = LedgerFile(ledger)
    /\ total_count \in 0 .. MaxPlanRows
    /\ chunk_size \in 1 .. MaxPlanSize
    /\ batch_size \in 1 .. MaxPlanSize
    /\ csv_file = SourceOf(total_count)
    /\ split_chunk_size = SplitChunkSize
    /\ split_dir = SplitFiles(csv_file, split_chunk_size, total_count)
    /\ duckdb_file = "loaded"
    /\ filter_condition = FALSE
    /\ progress_configured = TRUE
    /\ pc = "idle"
    /\ completed_chunks = {}
    /\ records_found = 0
    /\ progress_lock = FALSE
    /\ table_exists = FALSE
    /\ chunk_batches = <<>>
    /\ workers = <<>>
    /\ verified = FALSE
    /\ chunk_files = List(existing_splits(split_dir))
    /\ run = 1
    /\ ledger_at_start = {}
    /\ table_at_start = FALSE
    /\ exported = {}
    /\ copied = {}
    /\ connected = FALSE
    /\ kills = 0
    /\ faults = 0
    /\ EnginesIdle

PlanSpec == PlanInit /\ [][StartRun]_vars

\* ---- the progress file on its own -----------------------------------
\* lines a progress file can hold: indices, an index between blanks, an
\* empty line, letters, a digit character without a value, an undecodable
\* byte
SampleLines ==
    {<<"3">>, <<"7">>, <<"sp", "1", "0", "sp">>, <<>>, <<"a", "b", "c">>,
     <<"sup2">>, <<"bad">>}

RECURSIVE SeqsUpTo(_, _)
SeqsUpTo(S, n) ==
    IF n = 0 THEN {<<>>}
    ELSE LET shorter == SeqsUpTo(S, n - 1)
         IN  shorter \cup {Append(q, x) : q \in shorter, x \in S}

\* the progress files found on disk
LedgerFiles ==
    {NoFile} \cup
    {[exists |-> TRUE, lines |-> l] : l \in SeqsUpTo(SampleLines, MaxLines)}

\* the sets of chunk indices given to save_progress_unsafe
LedgerSets == SUBSET {0, 3, 10, MaxIndex}

LedgerInit ==
    /\ EmptySink
    /\ progress_file \in LedgerFiles
    /\ split_dir = <<>>
    /\ duckdb_file = "loaded"
    /\ filter_condition = FALSE
    /\ batch_size = 1
    /\ progress_configured \in BOOLEAN
    /\ csv_file = SourceOf(TotalCount)
    /\ split_chunk_size = SplitChunkSize
    /\ total_count = TotalCount
    /\ chunk_size = ChunkSize
    /\ pc = "idle"
    /\ FreshMemory
    /\ completed_chunks \in LedgerSets

\* gbif.py:686  self.completed_chunks = self.load_progress()
LedgerLoad ==
    /\ pc \in {"idle", "saved", "killed"}
    /\ completed_chunks' = load_progress
    /\ pc' = "loaded"
    /\ UNCHANGED <<durable, config, engines, records_found, progress_lock,
                   table_exists, chunk_batches, workers, verified, chunk_files,
                   run, history>>

\* gbif.py:611  self.save_progress_unsafe(self.completed_chunks)
LedgerSave ==
    /\ pc \in {"idle", "loaded"}
    /\ progress_file' = save_progress_unsafe(completed_chunks)
    /\ pc' = "saved"
    /\ UNCHANGED <<the_sink, staging, config, engines, completed_chunks, records_found,
                   progress_lock, table_exists, chunk_batches, workers,
                   verified, chunk_files, run, history>>

\* gbif.py:155-157  the process is killed inside save_progress_unsafe:
\* open(..., 'w') has emptied the file and the first n lines of the new
\* ledger are on disk; the memory of the process is lost
LedgerSaveKill ==
    /\ pc \in {"idle", "loaded"}
    /\ progress_configured
    /\ \E n \in 0 .. Cardinality(completed_chunks) :
           progress_file' =
               [exists |-> TRUE,
                lines |-> SubSeq(ProgressLines(completed_chunks), 1, n)]
    /\ run < MaxRuns
    /\ run' = run + 1
    /\ completed_chunks' = {}
    /\ kills' = kills + 1
    /\ pc' = "killed"
    /\ UNCHANGED <<the_sink, staging, config, engines, records_found, progress_lock,
                   table_exists, chunk_batches, workers, verified, chunk_files,
                   this_run, faults>>

LedgerNext == LedgerLoad \/ LedgerSave \/ LedgerSaveKill

LedgerSpec == LedgerInit /\ [][LedgerNext]_vars

\* ---- sources.py: insert_large_file_streaming ------------------------
\* the chunks one pass of the read loop can hold: rows data rows of which
\* kept satisfy the filter; loads: one of the load methods yields rows;
\* filter_ok: the filter query runs on the columns of the chunk; copy_ok:
\* the sink accepts the rows
StreamChunks ==
    [rows : 1 .. MaxChunkRows, kept : 0 .. MaxChunkRows,
     loads : BOOLEAN, filter_ok : BOOLEAN, copy_ok : BOOLEAN]

\* sources.py:109-123  DROP TABLE IF EXISTS ... CASCADE, then CREATE TABLE:
\* the table of the open transaction is an empty one, whatever it held
create_postgres_table(txn) == [exists |-> TRUE, rows |-> 0]

\* sources.py:389-513  process_chunk_to_postgres: what it returns, what it
\* leaves in the sink transaction and on disk, whether it raises
process_chunk_to_postgres(chunk, is_first_chunk, filtered, txn) ==
    LET original_count == chunk.rows
        applied == filtered /\ chunk.filter_ok
        filtered_count == IF applied THEN Min(chunk.kept, chunk.rows)
                          ELSE original_count
        lines == ExportLines(filtered_count)
        stored == CopyIn(SentLines(lines, is_first_chunk), is_first_chunk)
        table == IF is_first_chunk THEN create_postgres_table(txn) ELSE txn
        nothing == [rows |-> 0, original_rows |-> 0, raised |-> FALSE,
                    txn |-> txn, chunk_path |-> FALSE, temp_csv |-> FALSE,
                    warned |-> FALSE, created |-> FALSE]
    IN  IF ~chunk.loads
        THEN nothing                                           \* 434-436
        ELSE IF applied /\ filtered_count = 0
        THEN [nothing EXCEPT !.original_rows = original_count] \* 464-466
        ELSE IF ~chunk.copy_ok
        THEN [nothing EXCEPT !.raised = TRUE, !.txn = table,   \* 480-507
                             !.created = is_first_chunk,        \* 471-476
                             !.warned = filtered /\ ~chunk.filter_ok]
        ELSE [nothing EXCEPT
                 !.rows = filtered_count,
                 !.original_rows = original_count,
                 !.txn = [table EXCEPT !.rows = @ + Len(stored)],
                 !.created = is_first_chunk,                    \* 471-476
                 !.warned = filtered /\ ~chunk.filter_ok]

NoTable == [exists |-> FALSE, rows |-> 0]

\* sources.py:515-531  a call that has not connected to the sink yet
StreamStart ==
    [pc |-> "start", chunk_num |-> 0, table_created |-> FALSE,
     total_rows |-> 0, total_filtered_rows |-> 0, pg |-> NoTable,
     txn |-> NoTable, chunk_path |-> FALSE, temp_csv |-> FALSE,
     error |-> "none", last |-> "none", warnings |-> 0,
     creates |-> 0, committed |-> <<>>]

StreamInit ==
    /\ stager = Idle
    /\ EmptySink
    /\ progress_file = NoFile
    /\ split_dir = <<>>
    /\ duckdb_file = "absent"
    /\ filter_condition \in BOOLEAN
    /\ batch_size = 1
    /\ progress_configured = TRUE
    /\ csv_file = SourceOf(TotalCount)
    /\ split_chunk_size = SplitChunkSize
    /\ total_count = TotalCount
    /\ chunk_size = ChunkSize
    /\ pc = "start"
    /\ completed_chunks = {}
    /\ records_found = 0
    /\ progress_lock = FALSE
    /\ table_exists = FALSE
    /\ chunk_batches = <<>>
    /\ workers = <<>>
    /\ verified = FALSE
    /\ chunk_files = NotCalled
    /\ run = 1
    /\ ledger_at_start = {}
    /\ table_at_start = FALSE
    /\ exported = {}
    /\ copied = {}
    /\ connected = FALSE
    /\ kills = 0
    /\ faults = 0
    /\ stream = StreamStart
    /\ smart_filter = Idle
    /\ loader = Idle
    /\ pool = Idle

StreamFrame ==
    UNCHANGED <<durable, config, pc, completed_chunks, records_found,
                progress_lock, table_exists, chunk_batches, workers, verified,
                chunk_files, run, history, smart_filter, loader, pool, stager>>

\* sources.py:520-537  the sink connection opens, the source is opened and
\* its header read
StreamConnect ==
    /\ stream.pc = "start"
    /\ stream' = [stream EXCEPT !.pc = "streaming"]
    /\ StreamFrame

\* sources.py:520  get_postgres_connection raises: the sink is unreachable
StreamConnectFail ==
    /\ stream.pc = "start"
    /\ stream' = [stream EXCEPT !.pc = "raised", !.error = "connect"]
    /\ StreamFrame

\* a loop that never notes that the table was created
table_created_Never(table_created, final) == table_created

\* sources.py:556-560  table_created = True after a chunk of the loop that
\* brought rows; the chunk after the loop (583-587) leaves the flag alone
table_created_after(table_created, final) ==
    IF final THEN table_created ELSE TRUE

\* sources.py:539-569 (a full chunk) and 571-592 (the rest of the file):
\* process the chunk, commit when it brought rows; an exception is rolled
\* back and raised again (602-607)
StreamChunk ==
    /\ stream.pc = "streaming"
    /\ stream.chunk_num < MaxStreamChunks
    /\ \E chunk \in StreamChunks, final \in BOOLEAN :
         LET chunk_num == stream.chunk_num + 1
             r == process_chunk_to_postgres(chunk, ~stream.table_created,
                                            filter_condition, stream.txn)
             outcome == IF r.raised THEN "raised"
                        ELSE IF ~chunk.loads THEN "lost"
                        ELSE IF r.rows = 0 THEN "empty"
                        ELSE IF r.warned THEN "unfiltered"
                        ELSE "copied"
         IN  /\ chunk.kept <= chunk.rows
             /\ stream' =
                  IF r.raised
                  THEN [stream EXCEPT
                           !.pc = "raised", !.error = "chunk",
                           !.chunk_num = chunk_num, !.last = outcome,
                           !.txn = stream.pg,
                           !.creates = @ + (IF r.created THEN 1 ELSE 0),
                           !.chunk_path = r.chunk_path,
                           !.temp_csv = r.temp_csv,
                           !.warnings = @ + (IF r.warned THEN 1 ELSE 0)]
                  ELSE IF r.rows > 0
                  THEN [stream EXCEPT
                           !.pc = IF final THEN "returned" ELSE "streaming",
                           !.chunk_num = chunk_num, !.last = outcome,
                           !.total_rows = @ + r.original_rows,
                           !.total_filtered_rows = @ + r.rows,
                           !.table_created = table_created_after(@, final),
                           !.creates = @ + (IF r.created THEN 1 ELSE 0),
                           !.committed = Append(@, r.rows),
                           !.pg = r.txn, !.txn = r.txn,
                           !.chunk_path = r.chunk_path,
                           !.temp_csv = r.temp_csv,
                           !.warnings = @ + (IF r.warned THEN 1 ELSE 0)]
                  ELSE [stream EXCEPT
                           !.pc = IF final THEN "returned" ELSE "streaming",
                           !.chunk_num = chunk_num, !.last = outcome,
                           !.txn = r.txn,
                           !.chunk_path = r.chunk_path,
                           !.temp_csv = r.temp_csv]
    /\ StreamFrame

\* sources.py:571, 594-600  the file ends on a chunk boundary: the total is
\* returned
StreamEnd ==
    /\ stream.pc = "streaming"
    /\ stream' = [stream EXCEPT !.pc = "returned", !.last = "none"]
    /\ StreamFrame

StreamNext ==
    \/ StreamConnect
    \/ StreamConnectFail
    \/ StreamChunk
    \/ StreamEnd

StreamSpec == StreamInit /\ [][StreamNext]_vars

\* ---- sources.py: create_smart_filter --------------------------------
\* a string is the sequence of its pieces: a name, a quote character, an
\* operator or a literal
\* sources.py:84-85
expected_columns ==
    <<"kingdom", "phylum", "class", "order", "family", "genus", "species",
      "taxonomicStatus", "taxonRank", "scientificName">>

\* the column names of the staged tables
ColumnNames ==
    {"kingdom", "Kingdom", "KINGDOM", "family", "Family", "species",
     "taxonRank", "taxonrank", "TaxonRank", "id"}

\* str.lower() (sources.py:89-90)
Lower(name) ==
    CASE name \in {"Kingdom", "KINGDOM"} -> "kingdom"
      [] name = "Family" -> "family"
      [] name \in {"taxonRank", "TaxonRank"} -> "taxonrank"
      [] name = "taxonomicStatus" -> "taxonomicstatus"
      [] name = "scientificName" -> "scientificname"
      [] OTHER -> name

None_ == <<"None">>

\* sources.py:90  the name is quoted when it is not all lower case (none
\* of the names here holds a space)
quoted_name(actual) ==
    IF actual # Lower(actual) THEN <<"\"", actual, "\"">> ELSE <<actual>>

\* sources.py:87-92  expected name -> quoted name of the first column
\* that equals it ignoring case; <<>> where no column does
column_mapping(available_columns) ==
    [e \in Range(expected_columns) |->
        LET hits == {i \in 1 .. Len(available_columns) :
                        Lower(available_columns[i]) = Lower(e)}
        IN  IF hits = {} THEN <<>>
            ELSE quoted_name(available_columns[
                     CHOOSE i \in hits : \A j \in hits : i <= j])]

\* str.replace(old, new) on the pieces of a string
RECURSIVE Replace(_, _, _)
Replace(str, old, new) ==
    IF str = <<>> THEN <<>>
    ELSE (IF Head(str) = old THEN new ELSE <<Head(str)>>)
         \o Replace(Tail(str), old, new)

\* sources.py:94-96  the replacements, in the order of expected_columns
RECURSIVE ReplaceAll(_, _, _)
ReplaceAll(str, mapping, k) ==
    IF k > Len(expected_columns) THEN str
    ELSE LET e == expected_columns[k]
         IN  ReplaceAll(IF mapping[e] = <<>> THEN str
                        ELSE Replace(str, e, mapping[e]),
                        mapping, k + 1)

\* sources.py:78-98
create_smart_filter(filter, available_columns) ==
    IF filter = <<>> \/ filter = None_ THEN None_
    ELSE ReplaceAll(filter, column_mapping(available_columns), 1)

\* the filters given to the adapter
SampleFilters ==
    {<<>>,
     <<"kingdom", " = ", "'Plantae'">>,
     <<"taxonRank", " = ", "'", "species", "'">>,
     <<"family", " = ", "'Orchidaceae'", " AND ", "kingdom", " = ",
       "'Plantae'">>,
     <<"id", " > ", "'5'">>}

\* the column lists of a staged table: names differ ignoring case
ColumnLists ==
    {c \in SeqsUpTo(ColumnNames, MaxColumns) :
        \A i, j \in 1 .. Len(c) : Lower(c[i]) = Lower(c[j]) => i = j}

FilterInit ==
    /\ stager = Idle
    /\ EmptySink
    /\ progress_file = NoFile
    /\ split_dir = <<>>
    /\ duckdb_file = "absent"
    /\ filter_condition = TRUE
    /\ batch_size = 1
    /\ progress_configured = TRUE
    /\ csv_file = SourceOf(TotalCount)
    /\ split_chunk_size = SplitChunkSize
    /\ total_count = TotalCount
    /\ chunk_size = ChunkSize
    /\ pc = "start"
    /\ completed_chunks = {}
    /\ records_found = 0
    /\ progress_lock = FALSE
    /\ table_exists = FALSE
    /\ chunk_batches = <<>>
    /\ workers = <<>>
    /\ verified = FALSE
    /\ chunk_files = NotCalled
    /\ run = 1
    /\ ledger_at_start = {}
    /\ table_at_start = FALSE
    /\ exported = {}
    /\ copied = {}
    /\ connected = FALSE
    /\ kills = 0
    /\ faults = 0
    /\ stream = Idle
    /\ \E f \in SampleFilters, c \in ColumnLists :
          smart_filter = [pc |-> "called", filter_condition |-> f,
                          available_columns |-> c, adjusted_filter |-> <<>>,
                          again |-> <<>>]
    /\ loader = Idle
    /\ pool = Idle

FilterFrame ==
    UNCHANGED <<durable, config, pc, completed_chunks, records_found,
                progress_lock, table_exists, chunk_batches, workers, verified,
                chunk_files, run, history, stream, loader, pool, stager>>

\* sources.py:444  adjusted_filter = create_smart_filter(filter_condition,
\* column_names)
Adapt ==
    /\ smart_filter.pc = "called"
    /\ smart_filter' =
           [smart_filter EXCEPT
               !.pc = "adapted",
               !.adjusted_filter =
                   create_smart_filter(smart_filter.filter_condition,
                                       smart_filter.available_columns)]
    /\ FilterFrame

\* the adapted filter is given to the adapter once more, with the same
\* columns
AdaptAgain ==
    /\ smart_filter.pc = "adapted"
    /\ smart_filter' =
           [smart_filter EXCEPT
               !.pc = "adapted twice",
               !.again =
                   create_smart_filter(smart_filter.adjusted_filter,
                                       smart_filter.available_columns)]
    /\ FilterFrame

FilterNext == Adapt \/ AdaptAgain

FilterSpec == FilterInit /\ [][FilterNext]_vars

\* ---- sources.py: load_small_csv_to_duckdb ---------------------------
\* sources.py:23
autodetect_encodings == <<"utf-8", "latin-1", "cp1252", "iso-8859-1">>

\* sources.py:193
encodings ==
    <<"utf-8", "latin-1", "cp1252", "iso-8859-1", "utf-16", "utf-8-sig">>

\* sources.py:225-260  the three option sets of one encoding
duckdb_options == <<"delimiter", "padding", "auto_detect">>

Auto(enc) == [strategy |-> "auto", encoding |-> enc, option |-> "auto_detect"]
Manual(enc, opt) == [strategy |-> "manual", encoding |-> enc, option |-> opt]
Repaired == [strategy |-> "repair", encoding |-> "utf-8", option |-> "auto_detect"]

\* every attempt the loader can make
Attempts ==
    {Auto(autodetect_encodings[i]) : i \in 1 .. Len(autodetect_encodings)}
    \cup {Manual(encodings[i], duckdb_options[j]) :
              i \in 1 .. Len(encodings), j \in 1 .. Len(duckdb_options)}
    \cup {Repaired}

\* sources.py:30-39, 250-259  the same query: read_csv with auto_detect and
\* the encoding
Query(a) ==
    IF a.strategy = "repair" THEN a
    ELSE IF a.option = "auto_detect" THEN Auto(a.encoding) ELSE a

\* the files given to the loader: small is os.path.getsize below 10 bytes;
\* the queries of parses read the file, with its rows data rows, and each
\* other query does what failing says: it raises, or it reads no row
LoaderFiles ==
    [small : BOOLEAN, rows : 0 .. MaxFileRows, failing : {"raise", "zero"},
     parses : {{}} \cup {{Query(a)} : a \in Attempts}]

\* what conn.execute of one attempt and the count after it give
Outcome(file, a) ==
    IF Query(a) \in file.parses /\ file.rows > 0 THEN "rows"
    ELSE IF Query(a) \in file.parses THEN "zero"
    ELSE file.failing

NoSourceData == [exists |-> FALSE, rows |-> 0]

LoaderInit ==
    /\ stager = Idle
    /\ EmptySink
    /\ progress_file = NoFile
    /\ split_dir = <<>>
    /\ duckdb_file = "absent"
    /\ filter_condition = FALSE
    /\ batch_size = 1
    /\ progress_configured = TRUE
    /\ csv_file = SourceOf(TotalCount)
    /\ split_chunk_size = SplitChunkSize
    /\ total_count = TotalCount
    /\ chunk_size = ChunkSize
    /\ pc = "start"
    /\ completed_chunks = {}
    /\ records_found = 0
    /\ progress_lock = FALSE
    /\ table_exists = FALSE
    /\ chunk_batches = <<>>
    /\ workers = <<>>
    /\ verified = FALSE
    /\ chunk_files = NotCalled
    /\ run = 1
    /\ ledger_at_start = {}
    /\ table_at_start = FALSE
    /\ exported = {}
    /\ copied = {}
    /\ connected = FALSE
    /\ kills = 0
    /\ faults = 0
    /\ stream = Idle
    /\ smart_filter = Idle
    /\ \E f \in LoaderFiles :
          loader = [pc |-> "auto", file |-> f, i |-> 1, j |-> 1,
                    tried |-> <<>>, source_data |-> NoSourceData,
                    result |-> "none"]
    /\ pool = Idle

LoaderFrame ==
    UNCHANGED <<durable, config, pc, completed_chunks, records_found,
                progress_lock, table_exists, chunk_batches, workers, verified,
                chunk_files, run, history, stream, smart_filter, pool, stager>>

\* the table after one attempt: its rows when the query read some; kept
\* empty or dropped otherwise
Loaded(file) == [exists |-> TRUE, rows |-> file.rows]

\* sources.py:25-56, 186-190  one encoding of load_csv_with_duckdb_autodetect:
\* rows end the loader; no row leaves the empty table; an exception drops
\* the table; after the last encoding the function raises and the loader
\* falls back
AutoDetect ==
    /\ loader.pc = "auto"
    /\ LET a == Auto(autodetect_encodings[loader.i])
           o == Outcome(loader.file, a)
           last == loader.i = Len(autodetect_encodings)
       IN  loader' =
             IF o = "rows"
             THEN [loader EXCEPT !.pc = "returned",
                                 !.tried = Append(@, a),
                                 !.source_data = Loaded(loader.file),
                                 !.result = loader.file.rows]
             ELSE [loader EXCEPT
                      !.pc = IF last THEN "inspect" ELSE "auto",
                      !.i = IF last THEN 1 ELSE @ + 1,
                      !.tried = Append(@, a),
                      !.source_data = IF o = "zero"
                                      THEN [exists |-> TRUE, rows |-> 0]
                                      ELSE NoSourceData]
    /\ LoaderFrame

\* sources.py:192-218  the file is inspected; a file below 10 bytes is
\* skipped with the result 0
Inspect ==
    /\ loader.pc = "inspect"
    /\ loader' = IF loader.file.small
                 THEN [loader EXCEPT !.pc = "returned", !.result = 0]
                 ELSE [loader EXCEPT !.pc = "manual"]
    /\ LoaderFrame

\* ManualOption that goes on to the next option set after rows were read
ManualOption_KeepGoing ==
    /\ loader.pc = "manual"
    /\ LET a == Manual(encodings[loader.i], duckdb_options[loader.j])
           last_option == loader.j = Len(duckdb_options)
           last == last_option /\ loader.i = Len(encodings)
       IN  loader' =
             [loader EXCEPT
                 !.pc = IF last THEN "repair" ELSE "manual",
                 !.i = IF last_option THEN @ + 1 ELSE @,
                 !.j = IF last_option THEN 1 ELSE @ + 1,
                 !.tried = Append(@, a),
                 !.source_data = NoSourceData]
    /\ LoaderFrame

\* sources.py:220-283  one option set of one encoding: rows end the
\* loader, anything else drops the table and goes on
ManualOption ==
    /\ loader.pc = "manual"
    /\ LET a == Manual(encodings[loader.i], duckdb_options[loader.j])
           o == Outcome(loader.file, a)
           last_option == loader.j = Len(duckdb_options)
           last == last_option /\ loader.i = Len(encodings)
       IN  loader' =
             IF o = "rows"
             THEN [loader EXCEPT !.pc = "returned",
                                 !.tried = Append(@, a),
                                 !.source_data = Loaded(loader.file),
                                 !.result = loader.file.rows]
             ELSE [loader EXCEPT
                      !.pc = IF last THEN "repair" ELSE "manual",
                      !.i = IF last_option THEN @ + 1 ELSE @,
                      !.j = IF last_option THEN 1 ELSE @ + 1,
                      !.tried = Append(@, a),
                      !.source_data = NoSourceData]
    /\ LoaderFrame

\* sources.py:125-183, 285-290  repair_and_load_csv: rows are returned;
\* no row or an exception ends the loader with its exception
Repair ==
    /\ loader.pc = "repair"
    /\ LET o == Outcome(loader.file, Repaired)
       IN  loader' =
             IF o = "rows"
             THEN [loader EXCEPT !.pc = "returned",
                                 !.tried = Append(@, Repaired),
                                 !.source_data = Loaded(loader.file),
                                 !.result = loader.file.rows]
             ELSE [loader EXCEPT
                      !.pc = "raised",
                      !.tried = Append(@, Repaired),
                      !.source_data = IF o = "zero"
                                      THEN [exists |-> TRUE, rows |-> 0]
                                      ELSE NoSourceData,
                      !.result = "LoadFailure"]
    /\ LoaderFrame

LoaderNext == AutoDetect \/ Inspect \/ ManualOption \/ Repair

LoaderSpec == LoaderInit /\ [][LoaderNext]_vars

\* ---- gbif.py: the orchestrating thread of parallel_transfer ----------
\* gbif.py:738-740  the work items: one per batch, numbered in order
WorkItems(n) == 1 .. n

\* the futures whose state is FINISHED
Done(p) == {b \in WorkItems(p.n) : p.future[b] = "finished"}

PoolInit ==
    /\ stager = Idle
    /\ EmptySink
    /\ progress_file = NoFile
    /\ split_dir = <<>>
    /\ duckdb_file = "absent"
    /\ filter_condition = FALSE
    /\ batch_size = 1
    /\ progress_configured = TRUE
    /\ csv_file = SourceOf(TotalCount)
    /\ split_chunk_size = SplitChunkSize
    /\ total_count = TotalCount
    /\ chunk_size = ChunkSize
    /\ pc = "start"
    /\ completed_chunks = {}
    /\ records_found = 0
    /\ progress_lock = FALSE
    /\ table_exists = FALSE
    /\ chunk_batches = <<>>
    /\ workers = <<>>
    /\ verified = FALSE
    /\ chunk_files = NotCalled
    /\ run = 1
    /\ ledger_at_start = {}
    /\ table_at_start = FALSE
    /\ exported = {}
    /\ copied = {}
    /\ connected = FALSE
    /\ kills = 0
    /\ faults = 0
    /\ stream = Idle
    /\ smart_filter = Idle
    /\ loader = Idle
    /\ \E n \in 1 .. MaxPoolBatches, w \in 1 .. MaxWorkers :
          pool = [pc |-> "submit", n |-> n, max_workers |-> w,
                  submitted |-> <<>>,
                  future |-> [b \in WorkItems(n) |-> "new"],
                  outcome |-> [b \in WorkItems(n) |-> "none"],
                  finished |-> <<>>,
                  early |-> {},
                  yield_first |-> {},
                  waiter |-> <<>>,
                  results |-> <<>>,
                  completed_batches |-> 0,
                  warnings |-> 0]

PoolFrame ==
    UNCHANGED <<durable, config, pc, completed_chunks, records_found,
                progress_lock, table_exists, chunk_batches, workers, verified,
                chunk_files, run, history, stream, smart_filter, loader, stager>>

\* gbif.py:755-759  executor.submit of the next work item
Submit ==
    /\ pool.pc = "submit"
    /\ Len(pool.submitted) < pool.n
    /\ LET b == Len(pool.submitted) + 1
       IN  pool' = [pool EXCEPT !.submitted = Append(@, b),
                                !.future[b] = "pending"]
    /\ PoolFrame

\* gbif.py:750  a thread of the executor takes the oldest pending work item
WorkerStart ==
    /\ pool.pc \in {"submit", "collect"}
    /\ Cardinality({b \in WorkItems(pool.n) : pool.future[b] = "running"})
          < pool.max_workers
    /\ \E b \in WorkItems(pool.n) :
          /\ pool.future[b] = "pending"
          /\ \A c \in 1 .. b - 1 : pool.future[c] # "pending"
          /\ pool' = [pool EXCEPT !.future[b] = "running"]
    /\ PoolFrame

\* gbif.py:416-649  process_chunk_batch comes back: with a result that
\* succeeded or failed, or with an exception (line 423 is outside the try);
\* a waiter installed by as_completed is told, in the order of completion
WorkerReturn ==
    /\ pool.pc \in {"submit", "collect"}
    /\ \E b \in WorkItems(pool.n), o \in {"success", "failed", "raised"} :
          /\ pool.future[b] = "running"
          /\ pool' = [pool EXCEPT
                         !.future[b] = "finished",
                         !.outcome[b] = o,
                         !.finished = Append(@, b),
                         !.waiter = IF pool.pc = "collect"
                                    THEN Append(@, b) ELSE @]
    /\ PoolFrame

\* gbif.py:767  as_completed is called: the futures already finished are
\* put in a set, to be yielded first
AsCompleted ==
    /\ pool.pc = "submit"
    /\ Len(pool.submitted) = pool.n
    /\ pool' = [pool EXCEPT !.pc = "collect", !.early = Done(pool),
                             !.yield_first = Done(pool)]
    /\ PoolFrame

\* the result the orchestrator takes from a future (gbif.py:776-786)
ResultOf(p, b, stalled) ==
    [batch |-> b, success |-> p.outcome[b] = "success", stalled |-> stalled]

\* Collect that takes a stall for a failure of the batch
Collect_StallFails ==
    /\ pool.pc = "collect"
    /\ \E stalled \in BOOLEAN :
       \E b \in IF pool.yield_first # {} THEN pool.yield_first
                ELSE IF pool.waiter # <<>> THEN {Head(pool.waiter)} ELSE {} :
          pool' = [pool EXCEPT
                      !.yield_first = @ \ {b},
                      !.waiter = IF pool.yield_first # {} THEN @ ELSE Tail(@),
                      !.results = Append(@, [ResultOf(pool, b, stalled)
                                     EXCEPT !.success = @ /\ ~stalled]),
                      !.completed_batches = @ + 1,
                      !.warnings = IF stalled THEN @ + 1 ELSE @]
    /\ PoolFrame

\* gbif.py:767-789  one pass of the loop over as_completed: the next
\* future is one of the set finished beforehand, in no defined order, then
\* the others as they finish; a stall only prints
Collect ==
    /\ pool.pc = "collect"
    /\ \E stalled \in BOOLEAN :
       \E b \in IF pool.yield_first # {} THEN pool.yield_first
                ELSE IF pool.waiter # <<>> THEN {Head(pool.waiter)} ELSE {} :
          pool' = [pool EXCEPT
                      !.yield_first = @ \ {b},
                      !.waiter = IF pool.yield_first # {} THEN @ ELSE Tail(@),
                      !.results = Append(@, ResultOf(pool, b, stalled)),
                      !.completed_batches = @ + 1,
                      !.warnings = IF stalled THEN @ + 1 ELSE @]
    /\ PoolFrame

\* gbif.py:750, 824-832  the loop ends when every future was yielded; the
\* executor is left and verify_transfer follows
PoolFinish ==
    /\ pool.pc = "collect"
    /\ Len(pool.results) = pool.n
    /\ pool' = [pool EXCEPT !.pc = "done"]
    /\ PoolFrame

PoolNext ==
    Submit \/ WorkerStart \/ WorkerReturn \/ AsCompleted \/ Collect \/ PoolFinish

\* the threads of the pool and the orchestrating thread are scheduled
\* fairly, and each worker returns
PoolSpec ==
    /\ PoolInit
    /\ [][PoolNext]_vars
    /\ WF_vars(Submit) /\ WF_vars(WorkerStart) /\ WF_vars(WorkerReturn)
    /\ WF_vars(AsCompleted) /\ WF_vars(Collect) /\ WF_vars(PoolFinish)

\* ---- wfo.py: process_all_chunks, the staging of the chunk files ------
\* the staging store: the DuckDB file, its table and the chunk files whose
\* rows the table holds, in the order they were loaded
NoStore == [exists |-> FALSE, table |-> FALSE, loaded |-> <<>>]

StageInit ==
    /\ EmptySink
    /\ progress_file = NoFile
    /\ split_dir = <<>>
    /\ duckdb_file = "absent"
    /\ filter_condition = FALSE
    /\ batch_size = 1
    /\ progress_configured = TRUE
    /\ csv_file = SourceOf(TotalCount)
    /\ split_chunk_size = SplitChunkSize
    /\ total_count = TotalCount
    /\ chunk_size = ChunkSize
    /\ pc = "start"
    /\ completed_chunks = {}
    /\ records_found = 0
    /\ progress_lock = FALSE
    /\ table_exists = FALSE
    /\ chunk_batches = <<>>
    /\ workers = <<>>
    /\ verified = FALSE
    /\ chunk_files = NotCalled
    /\ run = 1
    /\ ledger_at_start = {}
    /\ table_at_start = FALSE
    /\ exported = {}
    /\ copied = {}
    /\ connected = FALSE
    /\ kills = 0
    /\ faults = 0
    /\ stream = Idle
    /\ smart_filter = Idle
    /\ loader = Idle
    /\ pool = Idle
    /\ \E n \in 0 .. MaxStageFiles :
          stager = [pc |-> "start", chunk_files |-> [f \in 1 .. n |-> f],
                    store |-> NoStore, i |-> 1, failed |-> 0,
                    result |-> "none", run |-> 1, kills |-> 0]

StageFrame ==
    UNCHANGED <<durable, config, pc, completed_chunks, records_found,
                progress_lock, table_exists, chunk_batches, workers, verified,
                chunk_files, run, history, stream, smart_filter, loader, pool>>

\* wfo.py:381-401  a store whose table can be counted is returned as it is;
\* any other file is removed; a new file is created, and without chunk
\* files the result is None
OpenStore ==
    /\ stager.pc = "start"
    /\ stager' =
          IF stager.store.exists /\ stager.store.table
          THEN [stager EXCEPT !.pc = "returned", !.result = "conn"]
          ELSE IF stager.chunk_files = <<>>
          THEN [stager EXCEPT !.pc = "returned", !.result = "None",
                              !.store = [NoStore EXCEPT !.exists = TRUE]]
          ELSE [stager EXCEPT !.pc = "loading", !.i = 1, !.failed = 0,
                              !.store = [NoStore EXCEPT !.exists = TRUE]]
    /\ StageFrame

\* wfo.py:343-375, 407-416  load_chunk_to_duckdb of the next chunk file:
\* CREATE TABLE AS for the first, INSERT INTO for the others, each made
\* durable at once; a statement that raises (an INSERT without the table
\* always does) is reported and the loop goes on
LoadChunk ==
    /\ stager.pc = "loading"
    /\ stager.i <= Len(stager.chunk_files)
    /\ \E ok \in BOOLEAN :
          LET is_first_chunk == stager.i = 1
              done == ok /\ (is_first_chunk <=> ~stager.store.table)
          IN  stager' =
                IF done
                THEN [stager EXCEPT
                        !.i = @ + 1,
                        !.store.table = TRUE,
                        !.store.loaded =
                            Append(@, stager.chunk_files[stager.i])]
                ELSE [stager EXCEPT !.i = @ + 1, !.failed = @ + 1]
    /\ StageFrame

\* wfo.py:418-426  after the loop the table is counted (which raises
\* without a table) and the connection returned
FinishStage ==
    /\ stager.pc = "loading"
    /\ stager.i > Len(stager.chunk_files)
    /\ stager' = IF stager.store.table
                 THEN [stager EXCEPT !.pc = "returned", !.result = "conn"]
                 ELSE [stager EXCEPT !.pc = "raised", !.result = "error"]
    /\ StageFrame

\* the process is killed while the chunk files are loaded: the store file
\* stays as the last statement left it
StageKill ==
    /\ stager.pc = "loading"
    /\ stager.run < MaxRuns
    /\ stager' = [stager EXCEPT !.pc = "start", !.run = @ + 1,
                                !.kills = @ + 1, !.i = 1,
                                !.result = "none"]
    /\ StageFrame

\* wfo.py:771-800  the pipeline is run again after a run that ended
StageAgain ==
    /\ stager.pc \in {"returned", "raised"}
    /\ stager.run < MaxRuns
    /\ stager' = [stager EXCEPT !.pc = "start", !.run = @ + 1, !.i = 1,
                                !.result = "none"]
    /\ StageFrame

StageNext ==
    OpenStore \/ LoadChunk \/ FinishStage \/ StageKill \/ StageAgain

StageSpec == StageInit /\ [][StageNext]_vars

TypeOK ==
    /\ sink_table \in BOOLEAN
    /\ sink \in [Chunks -> Nat]
    /\ load_progress \subseteq Chunks
    /\ pc \in {"start", "staging", "idle", "transfer", "done", "failed",
              "crashed"}
    /\ completed_chunks \subseteq Chunks
    /\ records_found \in Nat
    /\ progress_lock \in BOOLEAN
    /\ run \in 1 .. MaxRuns

\* ---- properties -----------------------------------------------------
\* the ledger right after the start of the run (gbif.py:686-694)
StartLedger == IF table_exists THEN ledger_at_start ELSE {}

\* chunks whose export has at least one row
NonEmptyChunks == {k \in Chunks : ChunkRecords(filter_condition, k) > 0}

\* batches whose worker took the progress lock
LockedBatches == {b \in Batches : workers[b].lock_acquired}

\* workers inside the locked section
InSection == {b \in Batches : workers[b].pc \in {"locked", "save", "release"}}

\* C1: every chunk index of the ledger (the in-memory completed set and the
\* progress file) has its rows committed in the sink exactly once.
C1_LedgerCommittedOnce ==
    \A k \in completed_chunks \cup load_progress : sink[k] = 1

\* C2: after two complete runs without any failure the sink holds the row
\* count of one run: the second run added no row.
C2_SecondRunAddsNoRows ==
    (pc = "done" /\ run >= 2 /\ kills = 0 /\ faults = 0)
        => SinkCount = TransferCount(filter_condition)

\* C3: when the sink table exists at run start, no chunk index of the ledger
\* loaded at run start is exported or copied during the run.
C3_LedgerChunksNotReprocessed ==
    (pc # "idle" /\ table_at_start)
        => (exported \cup copied) \cap ledger_at_start = {}

\* C4: after a kill and a later run that completes without chunk failure the
\* sink holds the rows of every chunk exactly once.
C4_ResumeExactlyOnce ==
    (pc = "done" /\ kills >= 1 /\ faults = 0)
        => /\ \A k \in NonEmptyChunks : sink[k] = 1
           /\ SinkCount = TransferCount(filter_condition)

\* C5: when a chunk of a batch fails, the rows written for the other chunks
\* of the batch stay written, the failed chunk is not recorded and not put in
\* the ledger, and the worker goes on to the next chunk.
C5_OnlyFailedChunkRolledBack ==
    [][\A b \in Batches :
          (/\ b \in DOMAIN workers'
           /\ workers[b].pc = "loop"
           /\ workers[b].i <= Len(chunk_batches[b])
           /\ workers'[b] # workers[b]
           /\ faults' = faults + 1)
          => /\ workers'[b].pc = "loop"
             /\ workers'[b].i = workers[b].i + 1
             /\ workers'[b].txn = workers[b].txn
             /\ workers'[b].processed_chunks = workers[b].processed_chunks
             /\ chunk_batches[b][workers[b].i] \notin completed_chunks'
      ]_vars

\* C6 as stated: at most one chunk's rows are uncommitted at any time.
C6_CommitPerChunk ==
    \A b \in Batches : Cardinality(workers[b].txn) <= 1

\* C6 amended: process_chunk_batch commits once per batch: while workers
\* run the sink changes
\* only in the step that ends the chunk loop of a batch with at least one
\* processed chunk, that step commits every uncommitted chunk of the batch,
\* and uncommitted rows (of up to batch_size chunks) exist only in the loop.
C6_CommitOncePerBatch ==
    /\ [][(pc = "transfer" /\ sink' # sink) =>
            \E b \in Batches :
                /\ b \in DOMAIN workers'
                /\ workers[b].pc = "loop"
                /\ workers[b].i > Len(chunk_batches[b])
                /\ workers[b].processed_chunks # <<>>
                /\ workers'[b].pc = "acquire"
                /\ workers'[b].txn = {}
                /\ sink' = [k \in Chunks |->
                              IF k \in workers[b].txn
                              THEN sink[k] + 1 ELSE sink[k]]
        ]_vars
    /\ [](\A b \in Batches :
            /\ workers[b].txn # {} => workers[b].pc = "loop"
            /\ Cardinality(workers[b].txn) <= batch_size)

C6_Witness ==
    \E b \in Batches : Cardinality(workers[b].txn) = 2

\* C7: verification runs after every batch has returned, and it removes the
\* progress file only when the sink count equals the expected count or the
\* ledger is empty.
C7_LedgerDeletedOnlyOnMatch ==
    [][(~verified /\ verified') =>
          /\ pc = "transfer" /\ AllReturned
          /\ (progress_file.exists /\ ~progress_file'.exists)
                => \/ SinkCount = TransferCount(filter_condition)
                   \/ completed_chunks = {}
      ]_vars

\* C8: at most one worker is inside the locked section, and once every batch
\* has returned the ledger is the start ledger united with the processed
\* chunks of every batch that took the lock, the record counter the sum of
\* the record counts of those batches.
C8_LedgerUpdatesUnderLock ==
    /\ Cardinality(InSection) <= 1
    /\ (pc = "transfer" /\ AllReturned)
          => /\ completed_chunks =
                    StartLedger \cup
                    UNION {Range(workers[b].processed_chunks) :
                               b \in LockedBatches}
             /\ records_found =
                    SumOver(LockedBatches,
                            [b \in LockedBatches |->
                                workers[b].batch_record_count])

\* C9: a worker that does not get the progress lock within the timeout
\* leaves the ledger, the progress file, the record counter, the sink and
\* every other worker as they are in each of its later steps, the run goes
\* on, and the worker returns a successful result with its own counts.
C9_TimeoutLeavesProgress ==
    [][\A b \in Batches :
          (/\ pc = "transfer"
           /\ b \in DOMAIN workers'
           /\ workers'[b] # workers[b]
           /\ ~workers'[b].lock_acquired
           /\ \/ LockTimeout(b)
              \/ LockTimeoutError(b)
              \/ HandlerRelease(b))
          => /\ UNCHANGED <<completed_chunks, progress_file, records_found,
                            sink, pc>>
             /\ workers'[b].pc \in {"handler", "returned"}
             /\ workers'[b].pc = "returned"
                   => /\ workers'[b].success
                      /\ workers'[b].result_chunks =
                             Len(workers[b].processed_chunks)
                      /\ workers'[b].result_records =
                             workers[b].batch_record_count
             /\ \A c \in Batches \ {b} : workers'[c] = workers[c]
      ]_vars

C9_Witness ==
    \E b \in Batches :
        /\ workers[b].pc = "returned"
        /\ workers[b].success
        /\ ~workers[b].lock_acquired
        /\ workers[b].result_chunks > 0
        /\ Range(workers[b].processed_chunks) \cap completed_chunks = {}

RECURSIVE Flatten(_)
Flatten(batches) ==
    IF batches = <<>> THEN <<>>
    ELSE Head(batches) \o Flatten(Tail(batches))

\* C11: when the sink table is absent at run start and the loaded ledger is
\* not empty, the step that starts the run empties the in-memory ledger,
\* removes the progress file and builds the batches from every chunk index
\* of [0, total_chunks), none of them started.
C11_AbsentTableDiscardsLedger ==
    [][(pc = "idle" /\ pc' # "idle" /\ ~sink_table /\ load_progress # {})
          => /\ completed_chunks' = {}
             /\ ~progress_file'.exists
             /\ load_progress' = {}
             /\ pc' # "crashed" =>
                   Flatten(chunk_batches') = [i \in 1 .. max_chunks |-> i - 1]
             /\ \A b \in DOMAIN workers' : workers'[b].pc = "queued"
      ]_vars

C11_Witness ==
    /\ pc = "transfer"
    /\ ~table_at_start
    /\ ledger_at_start # {}
    /\ completed_chunks = {}
    /\ ~progress_file.exists
    /\ \A b \in Batches : workers[b].pc = "queued"

\* C12: once the batches are built, the number of chunks n is the ceiling of
\* total_count / chunk_size, the batches in order make up the ascending list
\* of the indices of [0, n) outside the ledger, every batch but the last has
\* batch_size indices and the last between 1 and batch_size, every remaining
\* index is in exactly one batch and no ledger index is in a batch.
C12_BatchesPartitionRemaining ==
    pc \in {"transfer", "done"} =>
        \E n \in 0 .. total_count :
            LET flat == Flatten(chunk_batches)
                nb == Len(chunk_batches)
                remaining == (0 .. (n - 1)) \ completed_chunks
            IN  /\ n * chunk_size >= total_count
                /\ n > 0 => (n - 1) * chunk_size < total_count
                /\ Range(flat) = remaining
                /\ Len(flat) = Cardinality(remaining)
                /\ \A i \in 1 .. Len(flat) - 1 : flat[i] < flat[i + 1]
                /\ \A b \in 1 .. nb - 1 : Len(chunk_batches[b]) = batch_size
                /\ nb > 0 => Len(chunk_batches[nb]) \in 1 .. batch_size
                /\ \A k \in remaining :
                      Cardinality({b \in 1 .. nb :
                                     k \in Range(chunk_batches[b])}) = 1
                /\ \A b \in 1 .. nb :
                      Range(chunk_batches[b]) \cap completed_chunks = {}

C12_Witness ==
    /\ pc = "transfer"
    /\ MaxChunks(total_count, chunk_size) = 5
    /\ batch_size = 2
    /\ completed_chunks = {}
    /\ [b \in 1 .. Len(chunk_batches) |-> Len(chunk_batches[b])] = <<2, 2, 1>>

\* C13: the sink table is created only by the step that starts the run,
\* before any worker exists, and that step creates it when it is absent and
\* no error is raised; no step taken while workers run creates or drops the
\* table; the table-existed flag is set by that step only and every batch of
\* the run carries the same flag.
C13_TableSetUpOnceBeforeDispatch ==
    /\ [][(~sink_table /\ sink_table')
             => pc = "idle" /\ pc' \in {"transfer", "done", "crashed"}]_vars
    /\ [][(pc = "idle" /\ pc' # "idle" /\ faults' = faults) => sink_table']_vars
    /\ [][pc = "transfer" => sink_table' = sink_table]_vars
    /\ [][(pc = "transfer" /\ pc' \in {"transfer", "done"})
             => table_exists' = table_exists]_vars
    /\ [](\A b \in Batches : workers[b].table_exists = table_exists)

C13_Witness ==
    /\ pc = "transfer"
    /\ table_exists
    /\ \E b, c \in Batches :
          /\ b # c
          /\ workers[b].pc = "loop" /\ workers[b].processed_chunks # <<>>
          /\ workers[c].pc = "loop" /\ workers[c].processed_chunks # <<>>

\* C14: no header line is ever stored in the sink as a data row, committed
\* or not; a chunk is sent with its header line exactly when it is chunk 0
\* and the run found no table, every other chunk is sent without it; and the
\* copy of a chunk adds as many rows as its export has lines, minus one.
C14_HeaderNeverStored ==
    /\ [](/\ sink_header = 0
          /\ \A b \in Batches :
                /\ workers[b].txn_header = 0
                /\ workers[b].header_sent \subseteq {0}
                /\ workers[b].header_sent # {} => ~table_exists)
    /\ [][\A b \in Batches :
             (/\ b \in DOMAIN workers'
              /\ workers[b].pc = "loop"
              /\ workers'[b].processed_chunks # workers[b].processed_chunks)
             => LET chunk_num == chunk_batches[b][workers[b].i]
                    lines == ExportLines(ChunkRecords(filter_condition,
                                                      chunk_num))
                IN  /\ workers'[b].txn_rows =
                           workers[b].txn_rows + Len(lines) - 1
                    /\ chunk_num \in workers'[b].header_sent
                           <=> (chunk_num = 0 /\ ~table_exists)
         ]_vars

C14_Witness ==
    \E b, c \in Batches :
        /\ workers[b].header_sent = {0}
        /\ workers[c].processed_chunks # <<>>
        /\ workers[c].header_sent = {}
        /\ workers[c].txn_rows > 0
        /\ sink[0] = 1

\* C15: a call of split_large_csv that finds no chunk file and returns a
\* list leaves ceil(R/C) chunk files for a source of R data rows and chunk
\* size C: each begins with the header of the source, each but the last has
\* exactly C data rows, the last between 1 and C.
C15_SplitSizeExact ==
    [][(pc = "start" /\ split_dir = <<>> /\ chunk_files'.returned = "list")
          => LET rows == DataRows(csv_file)
                 n == Len(split_dir')
             IN  /\ n * split_chunk_size >= rows
                 /\ n > 0 => (n - 1) * split_chunk_size < rows
                 /\ chunk_files'.files = [f \in 1 .. n |-> f]
                 /\ \A f \in 1 .. n :
                       /\ split_dir'[f][1] = csv_file[1]
                       /\ f < n => Len(split_dir'[f]) - 1 = split_chunk_size
                       /\ Len(split_dir'[f]) - 1 \in 1 .. split_chunk_size
      ]_vars

C15_Witness ==
    /\ pc = "staging"
    /\ run = 1
    /\ DataRows(csv_file) = 5
    /\ split_chunk_size = 2
    /\ Len(split_dir) = 3
    /\ Len(split_dir[3]) = 2

\* C16: a call of split_large_csv that finds chunk files returns the list of
\* those files in name order and leaves every file of the directory as it
\* is.
C16_SplitIdempotent ==
    [][(pc = "start" /\ split_dir # <<>> /\ pc' # "start")
          => /\ split_dir' = split_dir
             /\ chunk_files' = List([f \in 1 .. Len(split_dir) |-> f])
             /\ pc' = "staging"
      ]_vars

C16_Witness ==
    /\ pc = "staging"
    /\ run = 2
    /\ kills = 0
    /\ faults = 0
    /\ Len(split_dir) = 3
    /\ chunk_files = List(<<1, 2, 3>>)

\* C17: a list returned by split_large_csv names the chunk files of the
\* whole source: the files of an aborted or interrupted split are not
\* returned as the result of a later call.
C17_NoPartialSplitAccepted ==
    chunk_files.returned = "list"
        => split_dir = SplitFiles(csv_file, split_chunk_size,
                                  DataRows(csv_file))

\* C18: the stages run in the order split, stage, transfer, verify, each
\* after the one before succeeded; when the split or the staging fails the
\* pipeline returns False, and it has opened no sink connection, written
\* nothing to the sink and not touched the ledger.
C18_StagesInOrder ==
    /\ [][(pc' # pc /\ pc' = "staging")
             => pc = "start" /\ chunk_files'.files # <<>>]_vars
    /\ [][(pc' # pc /\ pc' = "idle")
             => pc = "staging" /\ duckdb_file' = "loaded"]_vars
    /\ [][(pc' # pc /\ pc' = "transfer") => pc = "idle"]_vars
    /\ [][(~verified /\ verified') => pc = "transfer" /\ AllReturned]_vars
    /\ [][(pc \in {"start", "staging"} /\ pc' # pc)
             => /\ UNCHANGED <<the_sink, progress_file, completed_chunks>>
                /\ ~connected'
                /\ pc' \in {"staging", "idle", "failed"}]_vars

\* the set C19 gives for a progress file: the integers of the lines that,
\* once stripped, are made of decimal digits only; empty without a
\* configured, existing and decodable file
DigitLineIntegers(configured, file) ==
    IF ~configured \/ ~file.exists \/ Undecodable(file.lines) THEN {}
    ELSE {IntOf(Strip(file.lines[j])) :
             j \in {i \in 1 .. Len(file.lines) :
                       /\ Strip(file.lines[i]) # <<>>
                       /\ \A c \in Range(Strip(file.lines[i])) : c \in Digits}}

\* C19: load_progress returns exactly the integers of the digit lines of the
\* progress file and skips every other line; it returns the empty set when
\* no file is configured, the file is absent or it cannot be read.
C19_LoadSkipsOtherLines ==
    pc = "loaded"
        => completed_chunks =
               DigitLineIntegers(progress_configured, progress_file)

\* C20: after save_progress_unsafe wrote a set S to the configured progress
\* file, whatever the file held, load_progress returns exactly S and the file
\* holds the indices of S, one per line in decimal, in strictly ascending
\* order.
C20_SaveLoadRoundTrip ==
    (pc = "saved" /\ progress_configured)
        => /\ progress_file.exists
           /\ load_progress = completed_chunks
           /\ Len(progress_file.lines) = Cardinality(completed_chunks)
           /\ \A i \in 1 .. Len(progress_file.lines) :
                 LET line == progress_file.lines[i]
                 IN  /\ line # <<>>
                     /\ \A c \in Range(line) : c \in Digits
                     /\ IntOf(line) \in completed_chunks
                     /\ Len(line) > 1 => line[1] # "0"
           /\ \A i \in 1 .. Len(progress_file.lines) - 1 :
                 IntOf(progress_file.lines[i])
                     < IntOf(progress_file.lines[i + 1])

C20_Witness ==
    /\ pc = "saved"
    /\ progress_configured
    /\ completed_chunks = {0, 3, 10, MaxIndex}
    /\ Len(progress_file.lines) = 4

\* C21: a kill during a save leaves a progress file that loads as the
\* complete previous set or as the complete new set.
C21_SaveIsAtomic ==
    [][pc' = "killed" =>
          load_progress' \in {load_progress, completed_chunks}]_vars

\* C22: an error confined to one chunk never fails the run: the streaming
\* load goes on with the next chunk instead of raising.
C22_ChunkErrorContained ==
    stream.pc = "raised" => stream.error # "chunk"

\* C23: a chunk whose filtered export is empty is a no-op: the pass of the
\* loop over it writes no row, counts no record, keeps the sink
\* transaction of the batch, stays in the loop, and a batch fails only
\* when an error was raised.
C23_EmptyChunkIsNoOp ==
    /\ [](\A b \in Batches :
            (workers[b].pc = "returned" /\ ~workers[b].success) => faults > 0)
    /\ [][\A b \in Batches :
            (/\ InLoop(b)
             /\ chunk_batches[b][workers[b].i] \notin completed_chunks
             /\ ChunkRecords(filter_condition,
                             chunk_batches[b][workers[b].i]) = 0
             /\ b \in DOMAIN workers'
             /\ workers'[b] # workers[b]
             /\ faults' = faults /\ kills' = kills)
            => (/\ workers'[b] = [workers[b] EXCEPT !.i = @ + 1]
                /\ sink' = sink
                /\ records_found' = records_found)]_vars

\* a batch that copied a chunk, passed an empty one and returned success
C23_Witness ==
    \E b \in Batches :
        /\ workers[b].pc = "returned"
        /\ workers[b].success
        /\ workers[b].result_chunks = 1
        /\ Len(chunk_batches[b]) = 2
        /\ ChunkRecords(filter_condition, chunk_batches[b][2]) = 0
        /\ chunk_batches[b][2] \in exported
        /\ sink[chunk_batches[b][1]] > 0

\* C24: a filter that cannot be applied never aborts the processing: the
\* transfer goes on and the rows are copied unfiltered.
C24_FilterFailureDegrades ==
    [][StartRunFilterError => pc' \in {"transfer", "done"}]_vars

\* the canonical names a filter uses
Referenced(filter) == Range(filter) \cap Range(expected_columns)

\* the columns that equal a canonical name the filter uses, ignoring case
MatchedColumns(filter, columns) ==
    {a \in Range(columns) : \E e \in Referenced(filter) : Lower(a) = Lower(e)}

\* C25: the adapted filter names every matching column by its literal
\* name, and adapting the adapted filter again returns it unchanged.
C25_AdaptationNameStable ==
    /\ smart_filter.pc \in {"adapted", "adapted twice"} =>
           \A a \in MatchedColumns(smart_filter.filter_condition,
                                    smart_filter.available_columns) :
               a \in Range(smart_filter.adjusted_filter)
    /\ smart_filter.pc = "adapted twice" =>
           smart_filter.again = smart_filter.adjusted_filter

\* C26: create_smart_filter returns None exactly when no column name the
\* filter refers to matches a column of the staged table.
C26_NoneWithoutMatch ==
    smart_filter.pc \in {"adapted", "adapted twice"} =>
        (smart_filter.adjusted_filter = None_
            <=> MatchedColumns(smart_filter.filter_condition,
                               smart_filter.available_columns) = {})

\* sources.py:187, 220, 262, 287  the attempts in the order of the code
AttemptOrder ==
    [k \in 1 .. Len(autodetect_encodings) |-> Auto(autodetect_encodings[k])]
    \o [k \in 1 .. Len(encodings) * Len(duckdb_options) |->
           Manual(encodings[((k - 1) \div Len(duckdb_options)) + 1],
                  duckdb_options[((k - 1) % Len(duckdb_options)) + 1])]
    \o <<Repaired>>

\* C27: the attempts are made in the fixed order (automatic detection, the
\* encodings crossed with the option sets, one repair); the first attempt
\* that reads rows is the last one and its table is the result; the loader
\* raises only after every attempt, the repair included, has failed.
C27_FirstSuccessWins ==
    loader.pc # "idle" =>
        /\ Len(loader.tried) <= Len(AttemptOrder)
        /\ loader.tried = SubSeq(AttemptOrder, 1, Len(loader.tried))
        /\ \A k \in 1 .. Len(loader.tried) - 1 :
               Outcome(loader.file, loader.tried[k]) # "rows"
        /\ (\E k \in 1 .. Len(loader.tried) :
                Outcome(loader.file, loader.tried[k]) = "rows")
              => /\ loader.pc = "returned"
                 /\ loader.result = loader.file.rows
                 /\ loader.source_data = Loaded(loader.file)
        /\ loader.pc = "raised"
              => /\ loader.tried = AttemptOrder
                 /\ \A a \in Attempts : Outcome(loader.file, a) # "rows"

\* a file only the second option set of the third encoding reads
C27_Witness ==
    /\ loader.pc = "returned"
    /\ loader.result = MaxFileRows
    /\ Len(loader.tried) = Len(autodetect_encodings) + 2 * Len(duckdb_options) + 2
    /\ loader.tried[Len(loader.tried)] = Manual("cp1252", "padding")

\* a file every query reads without finding a data row
HeaderOnly(file) == file.rows = 0 /\ file.parses # {}

\* C28: a file that parses with zero data rows is not an error: the loader
\* returns zero rows for it without the fallback strategies, the repair or
\* a load failure.
C28_HeaderOnlyIsNotAnError ==
    (loader.pc # "idle" /\ HeaderOnly(loader.file))
    => /\ loader.pc \notin {"manual", "repair", "raised"}
       /\ loader.pc = "returned" => loader.result = 0

\* the batches collected so far, in the order of collection
Collected(p) == [k \in 1 .. Len(p.results) |-> p.results[k].batch]

\* the members of seq that are in set, in the order of seq
RECURSIVE Restrict(_, _)
Restrict(seq, set) ==
    IF seq = <<>> THEN <<>>
    ELSE IF Head(seq) \in set THEN <<Head(seq)>> \o Restrict(Tail(seq), set)
    ELSE Restrict(Tail(seq), set)

IsPrefix(a, b) == Len(a) <= Len(b) /\ a = SubSeq(b, 1, Len(a))

\* every batch is submitted once and at most one result is collected per
\* batch, counted in completed_batches
OncePerBatch(p) ==
    /\ \A j, k \in 1 .. Len(p.submitted) :
           p.submitted[j] = p.submitted[k] => j = k
    /\ \A j, k \in 1 .. Len(p.results) :
           p.results[j].batch = p.results[k].batch => j = k
    /\ \A k \in 1 .. Len(p.results) :
           p.results[k].batch \in Done(p)
    /\ p.completed_batches = Len(p.results)

\* C29 (as stated): every batch is submitted once and one result per batch
\* is collected, in completion order.
C29_CompletionOrder ==
    pool.pc # "idle" =>
        /\ OncePerBatch(pool)
        /\ IsPrefix(Collected(pool), pool.finished)

\* C29 (amended): under fair scheduling of workers that each return, every
\* batch is submitted once and one result per batch is collected after its
\* batch completed: first the batches that had completed before the
\* collection began, in no defined order, then the others in completion
\* order; the run ends with completed_batches equal to the number of
\* batches; a stall only adds a warning: the result of a batch is failed
\* exactly when its worker failed or raised.
C29_CollectsEveryBatch ==
    /\ [](pool.pc # "idle" =>
            /\ OncePerBatch(pool)
            /\ LET later == WorkItems(pool.n) \ pool.early
                   n_early == Len(Restrict(Collected(pool), pool.early))
               IN  /\ Collected(pool) =
                          Restrict(Collected(pool), pool.early)
                          \o Restrict(Collected(pool), later)
                   /\ Restrict(Collected(pool), later) # <<>>
                         => n_early = Cardinality(pool.early)
                   /\ IsPrefix(Restrict(Collected(pool), later),
                               Restrict(pool.finished, later))
            /\ \A k \in 1 .. Len(pool.results) :
                   pool.results[k].success
                      <=> pool.outcome[pool.results[k].batch] = "success"
            /\ pool.pc = "done" =>
                   /\ pool.completed_batches = pool.n
                   /\ Len(pool.submitted) = pool.n)
    /\ (pool.pc # "idle" ~> pool.pc = "done")

\* a run of the most batches that ended after a stall, with a batch
\* collected before one that had completed earlier
C29_Witness ==
    /\ pool.pc = "done"
    /\ pool.completed_batches = MaxPoolBatches
    /\ pool.warnings > 0
    /\ Collected(pool) # pool.finished
    /\ \E k \in 1 .. Len(pool.results) :
          pool.results[k].stalled /\ pool.results[k].success

C31_FreshRunTransfersEveryRowOnce ==
    (pc = "done" /\ run = 1 /\ kills = 0 /\ faults = 0)
        => /\ SumOver(Chunks, [k \in Chunks |->
                                 ChunkRecords(filter_condition, k)])
                 = TransferCount(filter_condition)
           /\ \A k \in Chunks :
                  sink[k] = IF ChunkRecords(filter_condition, k) > 0 THEN 1 ELSE 0
           /\ sink_header = 0
           /\ SinkCount = TransferCount(filter_condition)

\* a fresh run with a filter has ended without failure, its chunks taken by
\* more than one worker
C31_Witness ==
    /\ pc = "done"
    /\ run = 1
    /\ kills = 0
    /\ faults = 0
    /\ filter_condition
    /\ verified
    /\ Len(chunk_batches) > 1
    /\ SinkCount = FilteredCount

\* C32: in one run the batches hold no chunk index twice, a worker takes
\* the indices of its own batch one after the other, and the index it takes
\* was attempted by no worker before and is not in the ledger: no pass of
\* the chunk loop skips a chunk.
C32_EachChunkAttemptedOnce ==
    /\ [](pc = "transfer" =>
            \A j, k \in 1 .. Len(Flatten(chunk_batches)) :
                Flatten(chunk_batches)[j] = Flatten(chunk_batches)[k] => j = k)
    /\ [][\A b \in Batches :
             (InLoop(b) /\ b \in DOMAIN workers' /\ workers'[b] # workers[b])
                => /\ workers'[b].i = workers[b].i + 1
                   /\ chunk_batches[b][workers[b].i] \notin completed_chunks
                   /\ chunk_batches[b][workers[b].i] \notin exported
                   /\ chunk_batches[b][workers[b].i] \in exported'
       ]_vars

\* a worker is in the middle of its batch after another worker has put its
\* chunks in the ledger
C32_Witness ==
    /\ pc = "transfer"
    /\ \E b \in Batches :
          /\ workers[b].pc = "loop"
          /\ workers[b].i = 2
          /\ Len(chunk_batches[b]) = 2
          /\ chunk_batches[b][1] \in exported
          /\ \E c \in Batches \ {b} :
                /\ workers[c].updated
                /\ Range(chunk_batches[c]) \subseteq completed_chunks
                /\ Range(chunk_batches[c]) # {}

\* C33: the progress lock is released only by the worker that holds it:
\* every step that frees the lock is taken by a worker inside the locked
\* section, and at most one worker is inside the section.
C33_ReleasedOnlyByHolder ==
    /\ [][(progress_lock /\ ~progress_lock' /\ pc' = "transfer")
             => \E b \in InSection : workers'[b] # workers[b]]_vars
    /\ [](Cardinality(InSection) <= 1)

\* C34: a batch result with success = false reports 0 chunks and 0 records,
\* no chunk index of its batch is in the ledger, and no row of its batch is
\* committed to the sink (stated for a run that created the sink table).
C34_FailedBatchLeftNothing ==
    \A b \in Batches :
        (workers[b].pc = "returned" /\ ~workers[b].success)
            => /\ workers[b].result_chunks = 0
               /\ workers[b].result_records = 0
               /\ Range(chunk_batches[b]) \cap completed_chunks = {}
               /\ ~table_at_start
                     => \A k \in Range(chunk_batches[b]) : sink[k] = 0

\* C35: when the sink table exists at run start the step that starts the
\* run keeps the loaded ledger and the progress file, and no ledger chunk is
\* put in a batch, also when the sink setup fails with an error.
C35_LedgerKeptWhenTableExists ==
    [][(pc = "idle" /\ pc' # "idle" /\ sink_table /\ load_progress # {})
          => /\ completed_chunks' = load_progress
             /\ progress_file' = progress_file
             /\ Range(Flatten(chunk_batches')) \cap load_progress = {}
      ]_vars

\* C36 (as stated): when the ledger loaded at run start holds every chunk
\* index, the step that starts the run dispatches no batch, leaves the
\* sink, the ledger and the progress file as they are and verifies nothing.
C36_CompleteLedgerIsNoOp ==
    [][(pc = "idle" /\ pc' # "idle" /\ load_progress = Chunks)
          => /\ chunk_batches' = <<>>
             /\ workers' = <<>>
             /\ UNCHANGED <<sink_table, sink, sink_header>>
             /\ completed_chunks' = load_progress
             /\ progress_file' = progress_file
             /\ ~verified'
      ]_vars

\* C36 (amended): when the ledger loaded at run start holds every chunk
\* index and the sink setup reports the table as existing, the step that
\* starts the run dispatches no batch, leaves the sink, the ledger and the
\* progress file as they are and ends the run without verification.
C36_CompleteLedgerWithTableIsNoOp ==
    /\ [][(pc = "idle" /\ pc' # "idle" /\ load_progress = Chunks
               /\ table_exists')
             => /\ chunk_batches' = <<>>
                /\ workers' = <<>>
                /\ UNCHANGED <<sink_table, sink, sink_header>>
                /\ completed_chunks' = load_progress
                /\ progress_file' = progress_file
                /\ ~verified'
                /\ pc' \in {"done", "crashed"}
         ]_vars
    /\ []((pc = "done" /\ ledger_at_start = Chunks /\ table_exists)
             => ~verified /\ load_progress = Chunks)

\* a second run found the table and a ledger of every chunk index and ended
\* at once
C36_Witness ==
    /\ pc = "done"
    /\ run = 2
    /\ table_at_start
    /\ table_exists
    /\ ledger_at_start = Chunks
    /\ completed_chunks = Chunks
    /\ chunk_batches = <<>>
    /\ progress_file.exists
    /\ ~verified
    /\ exported = {}

\* the lines of a file after its header line
RowsOf(file) == SubSeq(file, 2, Len(file))

\* C37: a call of split_large_csv that finds no chunk file and returns a
\* list has written chunk files numbered 1, 2, ... without a gap whose data
\* rows, taken in the order of the chunk numbers, are the data rows of the
\* source in their order: no row lost, doubled or moved.
C37_SplitKeepsRows ==
    [][(pc = "start" /\ split_dir = <<>> /\ chunk_files'.returned = "list")
          => /\ Flatten([f \in 1 .. Len(split_dir') |-> RowsOf(split_dir'[f])])
                   = RowsOf(csv_file)
             /\ chunk_files'.files = [f \in 1 .. Len(split_dir') |-> f]
             /\ \A f \in 1 .. Len(split_dir') : Len(split_dir'[f]) > 1
      ]_vars

\* a source of four rows was split into a full file and a file of one row
C37_Witness ==
    /\ pc = "staging"
    /\ run = 1
    /\ csv_file = SourceOf(4)
    /\ split_chunk_size = 3
    /\ split_dir = <<<<0, 1, 2, 3>>, <<0, 4>>>>
    /\ chunk_files = List(<<1, 2>>)

\* C38: a store returned by process_all_chunks after a kill during the
\* staging, with no load reported as failed, holds the rows of every chunk
\* file exactly once, in order.
C38_StagingCompleteAfterCrash ==
    (stager.pc = "returned" /\ stager.result = "conn"
        /\ stager.kills > 0 /\ stager.failed = 0)
        => stager.store.loaded = stager.chunk_files

\* C39: in the streaming transfer the sink table is dropped and created at
\* most once per run, by the first chunk that yields a row after filtering;
\* once a chunk is committed no later chunk creates the table again, the
\* committed rows are never discarded, and the value returned is the sum of
\* the rows of the committed chunks.
C39_TableCreatedOnce ==
    /\ [](stream.creates <= 1)
    /\ [](stream.committed # <<>> => stream.creates = 1)
    /\ [](stream.pc = "returned" =>
            /\ stream.total_filtered_rows
                   = SumOver(DOMAIN stream.committed, stream.committed)
            /\ stream.pg.rows = stream.total_filtered_rows)
    /\ [][/\ (stream'.creates > stream.creates =>
                  /\ stream.committed = <<>>
                  /\ stream.total_filtered_rows = 0
                  /\ stream'.last \in {"copied", "unfiltered", "raised"})
          /\ (stream.committed # <<>> =>
                  /\ stream'.creates = stream.creates
                  /\ stream'.pg.exists
                  /\ stream'.pg.rows >= stream.pg.rows
                  /\ Len(stream'.committed) >= Len(stream.committed))]_vars

\* an empty chunk, then two chunks with rows, the second one the last of
\* the file: one creation, both chunks in the sink
C39_Witness ==
    /\ stream.pc = "returned"
    /\ stream.chunk_num = 3
    /\ stream.creates = 1
    /\ stream.committed = <<2, 1>>
    /\ stream.pg.rows = 3
    /\ stream.last = "copied"

\* C40: no two batches of a run use the same temporary export file: the
\* name is derived from the worker identifier of the batch, which differs
\* from that of every other batch of the run, among them the ones running
\* at the same time.
C40_OwnTempFile ==
    \A b1 \in Batches, b2 \in Batches :
        b1 # b2 =>
            /\ worker_id(b1) # worker_id(b2)
            /\ temp_csv_path(worker_id(b1)) # temp_csv_path(worker_id(b2))

\* two batches in their loops at the same time, each with a chunk exported
C40_Witness ==
    \E b1 \in Batches, b2 \in Batches :
        /\ b1 # b2
        /\ At(b1, "loop") /\ At(b2, "loop")
        /\ chunk_batches[b1][1] \in copied
        /\ chunk_batches[b2][1] \in copied
        /\ workers[b1].processed_chunks # <<>>
        /\ workers[b2].processed_chunks # <<>>

====
